---------------------------- MODULE Spec2Model ----------------------------
(***************************************************************************)
(* State-machine model of the raster annotation engine (PhotoEditor):      *)
(* tool / gesture state, the snapshot history and the preview rendering.   *)
(*                                                                         *)
(* The canvas is modelled at cell resolution: one cell stands for a block  *)
(* of pixels, a pointer position is the cell it falls in, and a stroke     *)
(* paints the cells it passes through.  Every handler is one atomic        *)
(* action (React flushes the state updates of an event before the next     *)
(* event is dispatched).                                                   *)
(***************************************************************************)
EXTENDS Integers, Sequences, FiniteSets, TLC

VARIABLES
    loaded,      \* img.onload has run
    canvas,      \* the canvas element: [w, h, px]
    ctx,         \* the 2D context: cells on the current path, current point, strokeStyle
    history,     \* useState<ImageData[]>: sequence of [id, data]
    isDrawing,   \* useState(false)
    startPos,    \* useState({x: 0, y: 0})
    activeTool,  \* useState(Tool.PEN)
    color,       \* useState('#FF0000')
    nextId,      \* identity of the next ImageData object getImageData returns
    undos,       \* history variable: undo steps that popped a snapshot (0, 1, 2 = more)
    selects,     \* number of tool / color selections made (bounded by MaxSelects)
    lastEv,      \* history variable: the handler that ran last
    earlyInput,  \* history variable: a gesture was started before the image loaded
    ges,         \* history variable: the gesture in progress / just finished
    evicted,     \* history variable: identities of the snapshots a push dropped
    commitLog,   \* history variable: canvas contents at the last two pushes
    editing,     \* the editor the host has mounted: "photo" (DetailModal.editingPhoto),
                 \* "annot" (App.annotatingImage) or "none"
    stored,      \* the db.images record of the image: [blob, annotationData]
    inflight,    \* canvas.toBlob calls whose callback has not fired yet
    objects,     \* ImageAnnotator: objects on the fabric canvas (-1: no fabric canvas yet)
    initialData, \* ImageAnnotator: the initialData prop it was mounted with
    host,        \* history variable: what the host saw during the editor session
    ptr,         \* one pointer event, the canvas rectangle and what getPos returned
    geo,         \* one shape preview at pixel resolution: anchor, point, what was drawn
    fab,         \* ImageAnnotator: the fabric canvas with the identities of its objects
    ui,          \* the component showing the item: "detail" (DetailModal) or "app" (App)
    editingItem, \* the item in memory: DetailModal.data / App.editingItem (live: not null)
    listed,      \* the item is in App.items
    dbItem,      \* the item's record in db.items (live: the row exists)
    dbImages,    \* ids of the db.images records that carry the item's id
    jobs,        \* async handlers suspended at an await, with the values they closed over
    fresh,       \* the next crypto.randomUUID() / recorder identity
    used,        \* history variable: user actions taken, per budget, and what they met
    isProcessingAI,   \* DetailModal.isProcessingAI / App.isAiProcessing
    isRecording,      \* useState(false)
    recorders,        \* the MediaRecorders created, each with its stream
    mediaRecorderRef, \* mediaRecorderRef.current: a recorder's identity, 0 for null
    aiSuggestion,     \* App.aiSuggestion is not null
    nav          \* App: categories, subcategories, groups and the active selection

\* what lies outside both editors and their export path
appVars == <<fab, ui, editingItem, listed, dbItem, dbImages, jobs, fresh, used,
             isProcessingAI, isRecording, recorders, mediaRecorderRef, aiSuggestion, nav>>

vars == <<loaded, canvas, ctx, history, isDrawing, startPos, activeTool, color,
          nextId, undos, selects, lastEv, earlyInput, ges, evicted, commitLog,
          editing, stored, inflight, objects, initialData, host, ptr, geo, appVars>>

\* what lies outside the PhotoEditor component
hostVars == <<editing, stored, inflight, objects, initialData, host, ptr, geo, appVars>>

---------------------------------------------------------------------------
(* Bounds *)

\* getImageData calls (snapshots captured) explored under Spec
MaxPushes == 3
\* tool and color selections explored under Spec
MaxSelects == 1
\* getImageData calls explored under SpecCap
MaxPushesCap == 11
\* getImageData calls per editor session explored under SpecHost
MaxPushesHost == 2
\* save requests explored under SpecHost
MaxSaves == 1
\* objects put on the fabric canvas
MaxObjects == 2
\* largest client coordinate of a pointer event under SpecPos
MaxClient == 4
\* objects created on the fabric canvas under SpecAnnot
MaxMade == 3
\* photo uploads started on the item
MaxUploads == 2
\* description edits and status changes made on the item
MaxEdits == 1
\* presses of the record button and of the AI button
MaxPresses == 3
\* photo uploads started on the item under SpecVoice
MaxUploadsVoice == 1
\* categories, subcategories and groups created under SpecNav
MaxNavIds == 6

---------------------------------------------------------------------------
(* Program constants *)

\* prev.slice(-9): the entries kept in front of a newly pushed snapshot
KeepOnPush == 9
\* mutant: undo returns only on an empty history
UndoFloor_Zero == 1 - 1

\* if (history.length <= 1) return
UndoFloor == 1

Tools == {"PEN", "CIRCLE", "ARROW"}
Palette == {"#FF0000", "#FFFF00", "#FFFFFF"}
\* strokeStyle of a freshly created or reset 2D context
DefaultStyle == "#000000"

\* Pointer positions delivered by getPos, as cells
Pos == {<<0, 0>>, <<1, 0>>}
\* A canvas element without width/height attributes is 300 x 150: 2 x 1 cells
DefaultDim == <<2, 1>>
\* Fitted image sizes the load may produce: a photo is larger than 300 x 150
ImgDims == {<<2, 2>>}

NoPt == <<-1, -1>>

---------------------------------------------------------------------------
(* Canvas primitives *)

Cells(w, h) == (0 .. w - 1) \X (0 .. h - 1)

BlankCanvas(dim) ==
    [w |-> dim[1], h |-> dim[2], px |-> [p \in Cells(dim[1], dim[2]) |-> "blank"]]

\* ctx.drawImage(img, 0, 0, width, height) on the freshly sized canvas
ImageCanvas(dim) ==
    [w |-> dim[1], h |-> dim[2], px |-> [p \in Cells(dim[1], dim[2]) |-> "img"]]

\* ctx.putImageData(data, 0, 0): overwrite the cells the data covers
PutImageData(cv, data) ==
    [cv EXCEPT !.px = [p \in DOMAIN cv.px |->
                          IF p \in DOMAIN data.px THEN data.px[p] ELSE cv.px[p]]]

Min(a, b) == IF a < b THEN a ELSE b
Max(a, b) == IF a < b THEN b ELSE a

\* Math.pow(dx, 2) + Math.pow(dy, 2)
Dist2(a, b) == (b[1] - a[1]) * (b[1] - a[1]) + (b[2] - a[2]) * (b[2] - a[2])

\* floor of Math.sqrt
Isqrt(n) == CHOOSE r \in 0 .. n : r * r <= n /\ (r + 1) * (r + 1) > n

\* The cells any canvas of the model can have
Universe == UNION {Cells(d[1], d[2]) : d \in ImgDims \cup {DefaultDim}}

\* A path is kept as the set of cells stroking it paints.
\* moveTo(a); lineTo(b): the cells on the straight line from a to b; a
\* zero-length line is pruned by stroke() and paints nothing
Seg(a, b) ==
    {p \in Universe :
        /\ a # b
        /\ (b[1] - a[1]) * (p[2] - a[2]) = (b[2] - a[2]) * (p[1] - a[1])
        /\ Min(a[1], b[1]) <= p[1] /\ p[1] <= Max(a[1], b[1])
        /\ Min(a[2], b[2]) <= p[2] /\ p[2] <= Max(a[2], b[2])}

\* arc(c.x, c.y, radius, 0, 2 * Math.PI): the cells at that distance from c
Arc(c, r2) == {p \in Universe : r2 > 0 /\ Dist2(c, p) = r2}

\* the two chevron lines (headLen = 15 px each) stay inside the tip's cell
Chevron(tip) == {p \in Universe : p = tip}

\* ctx.stroke(): paint the cells of the current path in strokeStyle
Stroke(cv, path, style) ==
    [cv EXCEPT !.px = [p \in DOMAIN cv.px |->
                          IF p \in path THEN style ELSE cv.px[p]]]

Last(s) == s[Len(s)]

\* the cells of a canvas that carry annotation strokes
Painted(cv) == {p \in DOMAIN cv.px : cv.px[p] \in Palette}

---------------------------------------------------------------------------
(* History store *)

\* mutant: nothing is dropped
LastN_All(s, n) == s

\* mutant: the oldest n entries are kept instead of the newest
LastN_Front(s, n) == IF Len(s) <= n THEN s ELSE SubSeq(s, 1, n)

\* prev.slice(-n)
LastN(s, n) == IF Len(s) <= n THEN s ELSE SubSeq(s, Len(s) - n + 1, Len(s))

\* mutant: the canvas's own buffer is handed out instead of a copy
GetImageData_Alias(cv, id) == [id |-> 0, data |-> cv]

\* ctx.getImageData(0, 0, canvas.width, canvas.height): a fresh copy
GetImageData(cv, id) == [id |-> id, data |-> cv]

\* mutant: an unchanged canvas is not saved again
SaveState_SkipSame(h, cv, id) ==
    IF Len(h) > 0 /\ Last(h).data = cv THEN h
    ELSE Append(LastN(h, KeepOnPush), GetImageData(cv, id))

\* saveState: setHistory(prev => [...prev.slice(-9), getImageData(...)])
SaveState(h, cv, id) == Append(LastN(h, KeepOnPush), GetImageData(cv, id))

\* mutant: the history is emptied
Pop_All(h) == <<>>

\* newHistory.pop()
Pop(h) == SubSeq(h, 1, Len(h) - 1)

---------------------------------------------------------------------------
(* Initial state: component mounted, image not yet loaded *)

NoGesture == [phase |-> "none", h0 |-> <<>>, c0 |-> BlankCanvas(DefaultDim),
              n |-> 0, last |-> NoPt, clean |-> FALSE]

\* PhotoEditor as mounted: the useState initial values, an untouched canvas
Mounted ==
    /\ loaded = FALSE
    /\ canvas = BlankCanvas(DefaultDim)
    /\ ctx = [path |-> {}, pt |-> NoPt, style |-> DefaultStyle]
    /\ history = <<>>
    /\ isDrawing = FALSE
    /\ startPos = <<0, 0>>
    /\ activeTool = "PEN"
    /\ color = "#FF0000"
    /\ nextId = 1
    /\ selects = 0
    /\ undos = 0
    /\ lastEv = "init"
    /\ earlyInput = FALSE
    /\ ges = NoGesture
    /\ evicted = {}
    /\ commitLog = <<>>

\* the photo as stored before any edit
OriginalBlob == [type |-> "original", cells |-> {}, objs |-> 0]

\* the blob argument of a toBlob callback that reports failure
NullBlob == [type |-> "null", cells |-> {}, objs |-> 0]

\* annotationData: null in the record; a prop that is not passed
NoDoc == [present |-> FALSE, objects |-> 0]

\* no pointer event looked at
NoPointer == [cx |-> 0, cy |-> 0, left |-> 0, top |-> 0, rw |-> 0, rh |-> 0,
              cw |-> 0, ch |-> 0, out |-> NoPt]

\* no shape preview looked at
NoShape == [tool |-> "PEN", a |-> NoPt, b |-> NoPt,
            arc |-> [cx |-> 0, cy |-> 0, r2 |-> 0, radius |-> 0],
            ends |-> <<NoPt, NoPt>>]

\* the host with the editor of kind k ("photo": DetailModal with PhotoEditor,
\* "annot": App with ImageAnnotator) just opened on the stored image
HostInitial(k) ==
    /\ editing = k
    /\ stored = [blob |-> OriginalBlob, annotationData |-> NoDoc]
    /\ inflight = {}
    /\ objects = -1
    /\ initialData = NoDoc
    /\ host = [kind |-> k, saves |-> 0, pure |-> TRUE, got |-> "nothing",
               openStored |-> [blob |-> OriginalBlob, annotationData |-> NoDoc]]
    /\ ptr = NoPointer
    /\ geo = NoShape

\* ImageAnnotator as mounted: no fabric canvas yet, useState tool 'pencil'
NoFabric == [ready |-> FALSE, objs |-> <<>>, made |-> 0, tool |-> "pencil",
             ev |-> "init"]

\* App before loadData has found anything: empty tables, nothing selected
\* (0 stands for null)
NoNav == [categories |-> <<>>, subcategories |-> <<>>, groups |-> <<>>,
          activeCategoryId |-> 0, activeSubcategoryId |-> 0, activeGroupId |-> 0,
          pending |-> {}, made |-> 0, crossed |-> FALSE]

\* a CheckItem without photos or description, as handleAddItem creates it
NewItem == [live |-> TRUE, images |-> <<>>, recordImages |-> <<>>, desc |-> <<>>,
            status |-> "pending"]

\* the item opened in component u; nothing is in flight
ItemInitial(u) ==
    /\ ui = u
    /\ editingItem = NewItem
    /\ listed = TRUE
    /\ dbItem = NewItem
    /\ dbImages = {}
    /\ jobs = {}
    /\ fresh = 1
    /\ used = [uploads |-> 0, edits |-> 0, presses |-> 0, overlap |-> FALSE,
               deleted |-> FALSE, doubled |-> FALSE]
    /\ isProcessingAI = FALSE
    /\ isRecording = FALSE
    /\ recorders = {}
    /\ mediaRecorderRef = 0
    /\ aiSuggestion = FALSE

\* what lies outside the editors, before anything has happened
AppInitial ==
    /\ fab = NoFabric
    /\ ItemInitial("detail")
    /\ nav = NoNav

Init == Mounted /\ HostInitial("photo") /\ AppInitial

InitHost == Mounted /\ AppInitial /\ \E k \in {"photo", "annot"} : HostInitial(k)

---------------------------------------------------------------------------
(* History variables: they record what happened and never steer a handler *)

\* The gesture record lives while the gesture is active, over its commit and
\* over an undo that directly follows the commit; any other event forgets
\* it.  An event other than a move during the gesture marks it as no longer
\* a plain start / move* / end gesture.
Disturb == IF isDrawing THEN [ges EXCEPT !.clean = FALSE] ELSE NoGesture

\* the identities a push dropped from the front of the history
Dropped(h, h2) == {h[i].id : i \in 1 .. Len(h)} \ {h2[i].id : i \in 1 .. Len(h2)}

\* the canvas contents captured by the last two pushes
Logged(log, cv) == LastN(Append(log, cv), 2)

---------------------------------------------------------------------------
(* Handlers *)

\* mutant: the initial state is saved twice
ImgOnload_Twice(dim) ==
    /\ ~loaded
    /\ loaded' = TRUE
    /\ canvas' = ImageCanvas(dim)
    /\ ctx' = [path |-> {}, pt |-> NoPt, style |-> DefaultStyle]
    /\ history' = SaveState(SaveState(history, canvas', nextId), canvas', nextId)
    /\ nextId' = nextId + 1
    /\ ges' = Disturb
    /\ lastEv' = "load"
    /\ evicted' = evicted \cup Dropped(history, history')
    /\ commitLog' = Logged(commitLog, canvas')
    /\ UNCHANGED <<isDrawing, startPos, activeTool, color, undos, selects, earlyInput>>
    /\ UNCHANGED hostVars

\* img.onload: size the canvas (which resets the context), draw the image,
\* save the initial state
ImgOnload(dim) ==
    /\ ~loaded
    /\ loaded' = TRUE
    /\ canvas' = ImageCanvas(dim)
    /\ ctx' = [path |-> {}, pt |-> NoPt, style |-> DefaultStyle]
    /\ history' = SaveState(history, canvas', nextId)
    /\ nextId' = nextId + 1
    /\ ges' = Disturb
    /\ lastEv' = "load"
    /\ evicted' = evicted \cup Dropped(history, history')
    /\ commitLog' = Logged(commitLog, canvas')
    /\ UNCHANGED <<isDrawing, startPos, activeTool, color, undos, selects, earlyInput>>
    /\ UNCHANGED hostVars

\* startDrawing (mousedown / touchstart)
StartDrawing(pos) ==
    /\ isDrawing' = TRUE
    /\ startPos' = pos
    /\ ctx' = [path |-> {}, pt |-> pos, style |-> color]
    /\ earlyInput' = (earlyInput \/ ~loaded)
    /\ ges' = [phase |-> "active", h0 |-> history, c0 |-> canvas, n |-> 0,
               last |-> NoPt, clean |-> ~isDrawing]
    /\ lastEv' = "start"
    /\ UNCHANGED <<loaded, canvas, history, activeTool, color, nextId, undos,
                   selects, evicted, commitLog>>
    /\ UNCHANGED hostVars

\* mutant: the path keeps only the newest segment
LineTo_Fresh(c, pos) ==
    IF c.pt = NoPt THEN [c EXCEPT !.pt = pos]
    ELSE [c EXCEPT !.path = Seg(c.pt, pos), !.pt = pos]

\* ctx.lineTo(x, y): with no subpath it only sets the current point
LineTo(c, pos) ==
    IF c.pt = NoPt THEN [c EXCEPT !.pt = pos]
    ELSE [c EXCEPT !.path = c.path \cup Seg(c.pt, pos), !.pt = pos]

\* mutant: the repaint from the history is left out
Restore_Skip(cv, h) == cv

\* the canvas the shape branch draws on: the last history item, if any, restored
Restore(cv, h) == IF Len(h) > 0 THEN PutImageData(cv, Last(h).data) ELSE cv

\* end point of ctx.arc(c.x, c.y, radius, 0, 2 * Math.PI)
ArcEnd(c, r2) == <<c[1] + Isqrt(r2), c[2]>>

\* the cells one shape preview paints
ShapeCells(tool, a, b) ==
    IF tool = "CIRCLE" THEN Arc(a, Dist2(a, b))
    ELSE Seg(a, b) \cup Chevron(b)

\* mutant: every move also saves a snapshot
Draw_Commit(pos) ==
    /\ IF ~isDrawing
       THEN /\ UNCHANGED <<canvas, ctx, history>>
            /\ ges' = NoGesture
       ELSE /\ ges' = [ges EXCEPT !.n = Min(ges.n + 1, 2), !.last = pos]
            /\ IF activeTool = "PEN"
               THEN /\ ctx' = LineTo(ctx, pos)
                    /\ canvas' = Stroke(canvas, ctx'.path, ctx'.style)
               ELSE /\ canvas' = Stroke(Restore(canvas, history),
                                        ShapeCells(activeTool, startPos, pos), color)
                    /\ ctx' = [path |-> ShapeCells(activeTool, startPos, pos),
                               pt |-> pos, style |-> color]
            /\ history' = SaveState(history, canvas', nextId)
    /\ lastEv' = IF isDrawing THEN "move" ELSE "hover"
    /\ UNCHANGED <<loaded, isDrawing, startPos, activeTool, color,
                   nextId, undos, selects, earlyInput, evicted, commitLog>>
    /\ UNCHANGED hostVars

\* mutant: the isDrawing guard is missing and a hovering pen paints
Draw_NoGuard(pos) ==
    /\ ges' = IF isDrawing THEN [ges EXCEPT !.n = Min(ges.n + 1, 2), !.last = pos]
              ELSE NoGesture
    /\ IF activeTool = "PEN"
       THEN /\ ctx' = LineTo(ctx, pos)
            /\ canvas' = Stroke(canvas, ctx'.path, ctx'.style)
       ELSE /\ canvas' = Stroke(Restore(canvas, history),
                                ShapeCells(activeTool, startPos, pos), color)
            /\ ctx' = [path |-> ShapeCells(activeTool, startPos, pos),
                       pt |-> pos, style |-> color]
    /\ lastEv' = IF isDrawing THEN "move" ELSE "hover"
    /\ UNCHANGED <<loaded, history, isDrawing, startPos, activeTool, color,
                   nextId, undos, selects, earlyInput, evicted, commitLog>>
    /\ UNCHANGED hostVars

\* draw (mousemove / touchmove)
Draw(pos) ==
    /\ IF ~isDrawing
       THEN /\ UNCHANGED <<canvas, ctx>>
            /\ ges' = NoGesture
       ELSE /\ ges' = [ges EXCEPT !.n = Min(ges.n + 1, 2), !.last = pos]
            /\ IF activeTool = "PEN"
               THEN /\ ctx' = LineTo(ctx, pos)
                    /\ canvas' = Stroke(canvas, ctx'.path, ctx'.style)
               ELSE /\ canvas' = Stroke(Restore(canvas, history),
                                        ShapeCells(activeTool, startPos, pos), color)
                    /\ ctx' = IF activeTool = "CIRCLE"
                              THEN [path |-> Arc(startPos, Dist2(startPos, pos)),
                                    pt |-> ArcEnd(startPos, Dist2(startPos, pos)),
                                    style |-> color]
                              ELSE [path |-> Chevron(pos), pt |-> pos, style |-> color]
    /\ lastEv' = IF isDrawing THEN "move" ELSE "hover"
    /\ UNCHANGED <<loaded, history, isDrawing, startPos, activeTool, color,
                   nextId, undos, selects, earlyInput, evicted, commitLog>>
    /\ UNCHANGED hostVars

\* mutant: the isDrawing guard is missing
StopDrawing_NoGuard ==
    /\ isDrawing' = FALSE
    /\ history' = SaveState(history, canvas, nextId)
    /\ nextId' = nextId + 1
    /\ lastEv' = "commit"
    /\ ges' = [ges EXCEPT !.phase = "committed"]
    /\ evicted' = evicted \cup Dropped(history, history')
    /\ commitLog' = Logged(commitLog, canvas)
    /\ UNCHANGED <<loaded, canvas, ctx, startPos, activeTool, color, undos,
                   selects, earlyInput>>
    /\ UNCHANGED hostVars

\* stopDrawing (mouseup / mouseleave / touchend)
StopDrawing ==
    /\ IF isDrawing
       THEN /\ isDrawing' = FALSE
            /\ history' = SaveState(history, canvas, nextId)
            /\ nextId' = nextId + 1
            /\ lastEv' = "commit"
            /\ ges' = [ges EXCEPT !.phase = "committed"]
            /\ evicted' = evicted \cup Dropped(history, history')
            /\ commitLog' = Logged(commitLog, canvas)
       ELSE /\ UNCHANGED <<isDrawing, history, nextId, evicted, commitLog>>
            /\ lastEv' = "stop"
            /\ ges' = NoGesture
    /\ UNCHANGED <<loaded, canvas, ctx, startPos, activeTool, color, undos,
                   selects, earlyInput>>
    /\ UNCHANGED hostVars

\* touchcancel (the system takes the touch away): the canvas binds
\* onTouchStart, onTouchMove and onTouchEnd only, so no handler runs
TouchCancel ==
    /\ isDrawing
    /\ lastEv # "touchcancel"
    /\ lastEv' = "touchcancel"
    /\ ges' = Disturb
    /\ UNCHANGED <<loaded, canvas, ctx, history, isDrawing, startPos, activeTool,
                   color, nextId, undos, selects, earlyInput, evicted, commitLog>>
    /\ UNCHANGED hostVars

\* handleUndo
HandleUndo ==
    /\ IF Len(history) <= UndoFloor
       THEN /\ UNCHANGED <<history, canvas, undos>>
            /\ lastEv' = "undoFloor"
       ELSE /\ history' = Pop(history)
            /\ canvas' = Restore(canvas, history')
            /\ undos' = Min(undos + 1, 2)
            /\ lastEv' = "undo"
    /\ ges' = IF ges.phase = "committed" THEN [ges EXCEPT !.phase = "undone"]
              ELSE Disturb
    /\ UNCHANGED <<loaded, ctx, isDrawing, startPos, activeTool, color, nextId,
                   selects, earlyInput, evicted, commitLog>>
    /\ UNCHANGED hostVars

\* tool buttons: setActiveTool(t)
SelectTool(t) ==
    /\ activeTool' = t
    /\ selects' = selects + 1
    /\ ges' = Disturb
    /\ lastEv' = "tool"
    /\ UNCHANGED <<loaded, canvas, ctx, history, isDrawing, startPos, color,
                   nextId, undos, earlyInput, evicted, commitLog>>
    /\ UNCHANGED hostVars

\* palette buttons: setColor(c)
SelectColor(c) ==
    /\ color' = c
    /\ selects' = selects + 1
    /\ ges' = Disturb
    /\ lastEv' = "color"
    /\ UNCHANGED <<loaded, canvas, ctx, history, isDrawing, startPos, activeTool,
                   nextId, undos, earlyInput, evicted, commitLog>>
    /\ UNCHANGED hostVars

---------------------------------------------------------------------------
(* Export, and the hosts of the two editors *)

\* canvas.toBlob(cb, 'image/jpeg', q): the encoded content, or null
ToBlob(cells, objs, ok) ==
    IF ok THEN [type |-> "image/jpeg", cells |-> cells, objs |-> objs] ELSE NullBlob

\* fabricRef.current.toJSON()
ToJSON(n) == [present |-> TRUE, objects |-> n]

editorVars == <<loaded, canvas, ctx, history, isDrawing, startPos, activeTool,
                color, nextId, undos, selects, earlyInput, ges, evicted, commitLog>>

\* PhotoEditor.handleSave: canvas.toBlob copies the bitmap now and calls back
\* later.  The callback closes over the onSave of this render
\* (drawing: isDrawing at the call).
HandleSave ==
    /\ inflight' = inflight \cup
           {[kind |-> "photo", n |-> host.saves + 1,
             json |-> NoDoc, cells |-> Painted(canvas), objs |-> 0,
             drawing |-> isDrawing]}
    /\ host' = [host EXCEPT !.saves = @ + 1, !.pure = FALSE]
    /\ ges' = Disturb
    /\ lastEv' = "save"
    /\ UNCHANGED <<loaded, canvas, ctx, history, isDrawing, startPos, activeTool,
                   color, nextId, undos, selects, earlyInput, evicted, commitLog>>
    /\ UNCHANGED <<editing, stored, objects, initialData, ptr, geo, appVars>>

\* ImageAnnotator: img.onload creates the fabric canvas; initialData, if
\* given, is loaded into it
AnnotOnload ==
    /\ objects = -1
    /\ objects' = IF initialData.present THEN initialData.objects ELSE 0
    /\ lastEv' = "annotLoad"
    /\ UNCHANGED editorVars
    /\ UNCHANGED <<editing, stored, inflight, initialData, host, ptr, geo, appVars>>

\* ImageAnnotator.addCircle / addArrow / a pencil stroke: one more object
\* (fabricRef.current is null before the load and the handler throws)
AddObject ==
    /\ objects' = IF objects = -1 THEN objects ELSE objects + 1
    /\ lastEv' = "add"
    /\ UNCHANGED editorVars
    /\ UNCHANGED <<editing, stored, inflight, initialData, host, ptr, geo, appVars>>

\* ImageAnnotator.undo: remove the last object, if any
AnnotUndo ==
    /\ objects' = IF objects > 0 THEN objects - 1 ELSE objects
    /\ lastEv' = "annotUndo"
    /\ UNCHANGED editorVars
    /\ UNCHANGED <<editing, stored, inflight, initialData, host, ptr, geo, appVars>>

\* ImageAnnotator.handleSave: toJSON now, toBlob calls back later
AnnotSave ==
    /\ IF objects = -1
       THEN UNCHANGED <<inflight, host>>
       ELSE /\ inflight' = inflight \cup
                   {[kind |-> "annot", n |-> host.saves + 1,
                     json |-> ToJSON(objects), cells |-> {}, objs |-> objects,
                     drawing |-> FALSE]}
            /\ host' = [host EXCEPT !.saves = @ + 1, !.pure = FALSE]
    /\ lastEv' = "save"
    /\ UNCHANGED editorVars
    /\ UNCHANGED <<editing, stored, objects, initialData, ptr, geo, appVars>>

\* saveEditedPhoto / saveAnnotation, as closed over by the callback: the
\* editingPhoto / annotatingImage of the render that created it is not null
Deliver(rec, kind, json, blob) ==
    IF kind = "photo" THEN [rec EXCEPT !.blob = blob]
    ELSE [blob |-> blob, annotationData |-> json]

\* the toBlob callback of e fires, with a blob (ok) or with null
ExportDone(e, ok) ==
    /\ e \in inflight
    /\ inflight' = inflight \ {e}
    /\ IF e.kind = "photo" /\ ~ok
       THEN \* if (blob) onSave(blob)
            /\ UNCHANGED <<stored, editing>>
            /\ host' = [host EXCEPT !.pure = FALSE]
       ELSE /\ stored' = Deliver(stored, e.kind, e.json, ToBlob(e.cells, e.objs, ok))
            /\ editing' = "none"
            /\ host' = [host EXCEPT !.pure = FALSE,
                                    !.got = IF ok THEN "payload" ELSE "nullPayload"]
    /\ lastEv' = IF ok THEN "export" ELSE "exportNull"
    /\ UNCHANGED editorVars
    /\ UNCHANGED <<objects, initialData, ptr, geo, appVars>>

\* mutant: cancel hands the original blob back to the host as a payload
Cancel_Deliver ==
    /\ editing' = "none"
    /\ stored' = Deliver(stored, host.kind, ToJSON(0), ToBlob({}, 0, TRUE))
    /\ host' = [host EXCEPT !.got = "payload"]
    /\ lastEv' = "cancel"
    /\ UNCHANGED editorVars
    /\ UNCHANGED <<inflight, objects, initialData, ptr, geo, appVars>>

\* onCancel: setEditingPhoto(null) / setAnnotatingImage(null)
Cancel ==
    /\ editing' = "none"
    /\ host' = [host EXCEPT !.got = "cancel"]
    /\ lastEv' = "cancel"
    /\ UNCHANGED editorVars
    /\ UNCHANGED <<stored, inflight, objects, initialData, ptr, geo, appVars>>

\* the host opens the editor on the stored image: a new component instance.
\* App mounts ImageAnnotator with imageBlob, onSave and onCancel only.
OpenEditor ==
    /\ editing = "none"
    /\ editing' = host.kind
    /\ IF host.kind = "photo"
       THEN /\ loaded' = FALSE
            /\ canvas' = BlankCanvas(DefaultDim)
            /\ ctx' = [path |-> {}, pt |-> NoPt, style |-> DefaultStyle]
            /\ history' = <<>>
            /\ isDrawing' = FALSE
            /\ startPos' = <<0, 0>>
            /\ activeTool' = "PEN"
            /\ color' = "#FF0000"
            /\ nextId' = 1
            /\ selects' = 0
            /\ undos' = 0
            /\ earlyInput' = FALSE
            /\ ges' = NoGesture
            /\ evicted' = {}
            /\ commitLog' = <<>>
            /\ UNCHANGED <<objects, initialData>>
       ELSE /\ objects' = -1
            /\ initialData' = NoDoc
            /\ UNCHANGED editorVars
    /\ host' = [host EXCEPT !.pure = TRUE, !.got = "nothing", !.openStored = stored]
    /\ lastEv' = "open"
    /\ UNCHANGED <<stored, inflight, ptr, geo, appVars>>

---------------------------------------------------------------------------
(* Input normalisation *)

\* pixel sizes of the canvas looked at
CanvasSizes == {<<2, 2>>, <<4, 2>>, <<4, 4>>}

\* origins of the canvas's bounding client rectangle
RectOrigins == {<<0, 0>>, <<1, 0>>, <<0, 1>>, <<1, 1>>}

\* on-screen sizes of a canvas of cw x ch pixels: its own size, or shrunk by
\* max-w-full / max-h-full to fit the container (here to one half)
RectSizes(dim) == {dim, <<dim[1] \div 2, dim[2] \div 2>>}

\* getPos: the client point relative to the rectangle's origin
GetPos(cx, cy, rect) == <<cx - rect.left, cy - rect.top>>

\* a mouse or touch event at client point (cx, cy) on the canvas element,
\* normalised by getPos
PointerEvent(cx, cy, o, dim, r) ==
    /\ o[1] <= cx /\ cx < o[1] + r[1]
    /\ o[2] <= cy /\ cy < o[2] + r[2]
    /\ ptr' = [cx |-> cx, cy |-> cy, left |-> o[1], top |-> o[2],
               rw |-> r[1], rh |-> r[2], cw |-> dim[1], ch |-> dim[2],
               out |-> GetPos(cx, cy, [left |-> o[1], top |-> o[2]])]
    /\ UNCHANGED editorVars
    /\ UNCHANGED <<lastEv, editing, stored, inflight, objects, initialData, host, geo, appVars>>

---------------------------------------------------------------------------
(* Shape geometry at pixel resolution *)

\* const headLen = 15
HeadLen == 15

\* pixel coordinates of the anchors and current points looked at
Coords == {0, 10, 20, 100}

\* Math.sin in thousandths, for the multiples of 15 degrees
SinQ(d) ==
    CASE d = 0 -> 0 [] d = 15 -> 259 [] d = 30 -> 500 [] d = 45 -> 707
      [] d = 60 -> 866 [] d = 75 -> 966 [] d = 90 -> 1000

Sin1000(deg) ==
    LET d == deg % 360
    IN  IF d <= 90 THEN SinQ(d)
        ELSE IF d <= 180 THEN SinQ(180 - d)
        ELSE IF d <= 270 THEN 0 - SinQ(d - 180)
        ELSE 0 - SinQ(360 - d)

\* Math.cos in thousandths
Cos1000(deg) == Sin1000(deg + 90)

\* the directions Math.atan2 is tabulated for: along an axis or a diagonal
Octant(dy, dx) == dx = 0 \/ dy = 0 \/ dx = dy \/ dx = 0 - dy

\* Math.atan2(dy, dx) in degrees, in (-180, 180]; atan2(0, 0) = 0
Atan2Deg(dy, dx) ==
    IF dy = 0 THEN (IF dx >= 0 THEN 0 ELSE 180)
    ELSE IF dx = 0 THEN (IF dy > 0 THEN 90 ELSE 0 - 90)
    ELSE IF dy > 0 THEN (IF dx > 0 THEN 45 ELSE 135)
    ELSE (IF dx > 0 THEN 0 - 45 ELSE 0 - 135)

\* mutant: the circle is centred at the current point
CircleArc_AtPoint(a, b) ==
    [cx |-> b[1], cy |-> b[2], r2 |-> Dist2(a, b), radius |-> Isqrt(Dist2(a, b))]

\* draw, CIRCLE: ctx.arc(startPos.x, startPos.y, radius, 0, 2 * Math.PI) with
\* radius = Math.sqrt(dx^2 + dy^2); r2 is the square of the radius, radius its
\* whole-pixel part
CircleArc(a, b) ==
    [cx |-> a[1], cy |-> a[2], r2 |-> Dist2(a, b), radius |-> Isqrt(Dist2(a, b))]

\* mutant: the chevron lines are laid forward of the tip
ChevronEnds_Forward(a, b) ==
    LET angle == Atan2Deg(b[2] - a[2], b[1] - a[1])
    IN  << <<b[1] * 1000 + HeadLen * Cos1000(angle - 30),
             b[2] * 1000 + HeadLen * Sin1000(angle - 30)>>,
           <<b[1] * 1000 + HeadLen * Cos1000(angle + 30),
             b[2] * 1000 + HeadLen * Sin1000(angle + 30)>> >>

\* draw, ARROW: the end points of the two chevron lines, in thousandths of a
\* pixel: currentPos - headLen * (cos, sin)(angle -+ Math.PI / 6)
ChevronEnds(a, b) ==
    LET angle == Atan2Deg(b[2] - a[2], b[1] - a[1])
    IN  << <<b[1] * 1000 - HeadLen * Cos1000(angle - 30),
             b[2] * 1000 - HeadLen * Sin1000(angle - 30)>>,
           <<b[1] * 1000 - HeadLen * Cos1000(angle + 30),
             b[2] * 1000 - HeadLen * Sin1000(angle + 30)>> >>

\* one shape preview of draw for anchor a (startPos) and current point b
ShapeFrame(tool, a, b) ==
    /\ tool = "ARROW" => Octant(b[2] - a[2], b[1] - a[1])
    /\ geo' = [tool |-> tool, a |-> a, b |-> b,
               arc |-> IF tool = "CIRCLE" THEN CircleArc(a, b) ELSE NoShape.arc,
               ends |-> IF tool = "ARROW" THEN ChevronEnds(a, b) ELSE NoShape.ends]
    /\ UNCHANGED editorVars
    /\ UNCHANGED <<lastEv, editing, stored, inflight, objects, initialData, host, ptr, appVars>>

---------------------------------------------------------------------------
(* ImageAnnotator: the objects of the fabric canvas, by identity *)

\* the variables of the editors and their hosts
sessionVars == <<editorVars, lastEv, editing, stored, inflight, objects,
                 initialData, host, ptr, geo>>

\* the item, its records and the handlers in flight
itemVars == <<ui, editingItem, listed, dbItem, dbImages, jobs, fresh, used,
              isProcessingAI, isRecording, recorders, mediaRecorderRef, aiSuggestion>>

\* mutant: the object at the bottom of the stack is removed
RemoveObject_Shift(objs, o) == Tail(objs)

\* fabricRef.current.remove(o): splice the list at indexOf(o)
RemoveObject(objs, o) ==
    IF \E i \in 1 .. Len(objs) : objs[i] = o
    THEN LET k == CHOOSE i \in 1 .. Len(objs) :
                      objs[i] = o /\ \A j \in 1 .. i - 1 : objs[j] # o
         IN  SubSeq(objs, 1, k - 1) \o SubSeq(objs, k + 1, Len(objs))
    ELSE objs

\* img.onload: new fabric.Canvas(...), isDrawingMode: true; the objects of
\* initialData, if it was passed, are loaded
FabricOnload ==
    /\ ~fab.ready
    /\ fab' = [fab EXCEPT !.ready = TRUE, !.ev = "load",
                          !.objs = [i \in 1 .. (IF initialData.present
                                                THEN initialData.objects ELSE 0)
                                       |-> [id |-> i, kind |-> "loaded"]],
                          !.made = IF initialData.present
                                   THEN initialData.objects ELSE 0]
    /\ UNCHANGED <<sessionVars, itemVars, nav>>

\* addCircle / addArrow: fabricRef.current.add(new object); setTool('select')
\* (before the load fabricRef.current is null: add throws, setTool is not reached)
AddShape(kind) ==
    /\ fab' = IF fab.ready
              THEN [fab EXCEPT !.objs = Append(@, [id |-> fab.made + 1, kind |-> kind]),
                               !.made = @ + 1, !.tool = "select", !.ev = "add"]
              ELSE [fab EXCEPT !.ev = "throw"]
    /\ UNCHANGED <<sessionVars, itemVars, nav>>

\* the pencil button: setTool('pencil'); the effect sets isDrawingMode
SetPencil ==
    /\ fab' = [fab EXCEPT !.tool = "pencil", !.ev = "tool"]
    /\ UNCHANGED <<sessionVars, itemVars, nav>>

\* a free-drawing stroke ends: in drawing mode the brush adds a path object
PencilStroke ==
    /\ fab.ready /\ fab.tool = "pencil"
    /\ fab' = [fab EXCEPT !.objs = Append(@, [id |-> fab.made + 1, kind |-> "stroke"]),
                          !.made = @ + 1, !.ev = "add"]
    /\ UNCHANGED <<sessionVars, itemVars, nav>>

\* undo: objects = getObjects(); if (objects.length > 0) remove(last)
\* (before the load getObjects throws on the null ref)
FabricUndo ==
    /\ fab' = IF ~fab.ready THEN [fab EXCEPT !.ev = "throw"]
              ELSE IF Len(fab.objs) > 0
              THEN [fab EXCEPT !.objs = RemoveObject(@, fab.objs[Len(fab.objs)]),
                               !.ev = "undo"]
              ELSE [fab EXCEPT !.ev = "undoEmpty"]
    /\ UNCHANGED <<sessionVars, itemVars, nav>>

---------------------------------------------------------------------------
(* One item under DetailModal or App: photos, description, status, delete. *)
(* An async handler runs up to its next await in one step; the database    *)
(* request it awaits is applied when it is issued (the requests of one     *)
(* connection are served in order) and the code after the await is a later *)
(* step, with the values the handler closed over when it was called.       *)

\* what the item actions leave alone
outsideItem == <<sessionVars, fab, nav>>

\* editingItem = null
NullItem == [live |-> FALSE, images |-> <<>>, recordImages |-> <<>>, desc |-> <<>>,
             status |-> "pending"]

\* { ...D, [field]: value }
With(D, field, value) == [D EXCEPT ![field] = value]

\* db.items.update(id, { [field]: value }): a row that is gone stays gone
DbUpdate(rec, field, value) == IF rec.live THEN [rec EXCEPT ![field] = value] ELSE rec

\* setEditingItem(prev => prev ? { ...prev, [field]: value } : null)
Functional(prev, field, value) ==
    IF prev.live THEN [prev EXCEPT ![field] = value] ELSE prev

\* the job j moved to program point pc
At(j, pc) == [j EXCEPT !.pc = pc]

\* handlers of the given kinds are suspended
Pending(kinds) == {j \in jobs : j.kind \in kinds}

\* DetailModal.handleStatusChange: updateField('status', s)
HandleStatusChange(s) ==
    /\ ui = "detail"
    /\ editingItem' = With(editingItem, "status", s)
    /\ dbItem' = DbUpdate(dbItem, "status", s)
    /\ used' = [used EXCEPT !.edits = @ + 1]
    /\ UNCHANGED <<ui, listed, dbImages, jobs, fresh, isProcessingAI, isRecording,
                   recorders, mediaRecorderRef, aiSuggestion>>
    /\ UNCHANGED outsideItem

\* App.updateItemStatus up to `await db.items.update`
UpdateItemStatus(s) ==
    /\ ui = "app" /\ editingItem.live
    /\ dbItem' = DbUpdate(dbItem, "status", s)
    /\ jobs' = jobs \cup {[n |-> fresh, kind |-> "status", pc |-> "update", id |-> 0,
                           D |-> editingItem, key |-> s]}
    /\ fresh' = fresh + 1
    /\ used' = [used EXCEPT !.edits = @ + 1]
    /\ UNCHANGED <<ui, editingItem, listed, dbImages, isProcessingAI, isRecording,
                   recorders, mediaRecorderRef, aiSuggestion>>
    /\ UNCHANGED outsideItem

\* App.updateItemStatus after the await: setItems, setEditingItem(prev => ...)
StatusUpdated(j) ==
    /\ j \in jobs /\ j.kind = "status"
    /\ editingItem' = Functional(editingItem, "status", j.key)
    /\ jobs' = jobs \ {j}
    /\ UNCHANGED <<ui, listed, dbItem, dbImages, fresh, used, isProcessingAI,
                   isRecording, recorders, mediaRecorderRef, aiSuggestion>>
    /\ UNCHANGED outsideItem

\* the description textarea's onChange: the text with what was typed, set
\* in memory and sent to the database
EditDescription ==
    /\ editingItem.live
    /\ editingItem' = With(editingItem, "desc", Append(editingItem.desc, "typed"))
    /\ dbItem' = DbUpdate(dbItem, "desc", Append(editingItem.desc, "typed"))
    /\ used' = [used EXCEPT !.edits = @ + 1]
    /\ UNCHANGED <<ui, listed, dbImages, jobs, fresh, isProcessingAI, isRecording,
                   recorders, mediaRecorderRef, aiSuggestion>>
    /\ UNCHANGED outsideItem

\* DetailModal.handlePhotoUpload up to `await db.images.add(newImage)`
HandlePhotoUpload ==
    /\ ui = "detail"
    /\ dbImages' = dbImages \cup {fresh}
    /\ jobs' = jobs \cup
          {[n |-> fresh, kind |-> "photo", pc |-> "add", id |-> fresh,
            D |-> editingItem,
            key |-> IF editingItem.status = "fail" THEN "images" ELSE "recordImages"]}
    /\ fresh' = fresh + 1
    /\ used' = [used EXCEPT !.uploads = @ + 1,
                            !.overlap = @ \/ Pending({"photo", "file"}) # {}]
    /\ UNCHANGED <<ui, editingItem, listed, dbItem, isProcessingAI, isRecording,
                   recorders, mediaRecorderRef, aiSuggestion>>
    /\ UNCHANGED outsideItem

\* handlePhotoUpload after the add: updateField(listKey, [...data[listKey], photoId])
\* up to the await inside updateField
PhotoAdded(j) ==
    /\ j \in jobs /\ j.kind = "photo" /\ j.pc = "add"
    /\ editingItem' = With(j.D, j.key, Append(j.D[j.key], j.id))
    /\ dbItem' = DbUpdate(dbItem, j.key, Append(j.D[j.key], j.id))
    /\ jobs' = (jobs \ {j}) \cup {At(j, "update")}
    /\ UNCHANGED <<ui, listed, dbImages, fresh, used, isProcessingAI, isRecording,
                   recorders, mediaRecorderRef, aiSuggestion>>
    /\ UNCHANGED outsideItem

\* handlePhotoUpload after updateField: setPhotos; a defect photo of an item
\* without description starts handleAnalyzeImage (setIsProcessingAI(true), up
\* to `await analyzeDefectImage`)
PhotoListed(j) ==
    /\ j \in jobs /\ j.kind = "photo" /\ j.pc = "update"
    /\ IF j.key = "images" /\ j.D.desc = <<>>
       THEN /\ isProcessingAI' = TRUE
            /\ jobs' = (jobs \ {j}) \cup {[j EXCEPT !.kind = "analyze", !.pc = "call"]}
       ELSE /\ jobs' = jobs \ {j}
            /\ UNCHANGED isProcessingAI
    /\ UNCHANGED <<ui, editingItem, listed, dbItem, dbImages, fresh, used,
                   isRecording, recorders, mediaRecorderRef, aiSuggestion>>
    /\ UNCHANGED outsideItem

\* handleAnalyzeImage after the call: updateField('description', ...) up to
\* its await, or the catch and the finally
AnalyzeDone(j, ok) ==
    /\ j \in jobs /\ j.kind = "analyze" /\ j.pc = "call"
    /\ IF ok
       THEN /\ editingItem' = With(j.D, "desc", Append(j.D.desc, "ai"))
            /\ dbItem' = DbUpdate(dbItem, "desc", Append(j.D.desc, "ai"))
            /\ jobs' = (jobs \ {j}) \cup {At(j, "saved")}
            /\ UNCHANGED isProcessingAI
       ELSE /\ isProcessingAI' = FALSE
            /\ jobs' = jobs \ {j}
            /\ UNCHANGED <<editingItem, dbItem>>
    /\ UNCHANGED <<ui, listed, dbImages, fresh, used, isRecording, recorders,
                   mediaRecorderRef, aiSuggestion>>
    /\ UNCHANGED outsideItem

\* handleAnalyzeImage: the finally after the description was saved
AnalyzeSaved(j) ==
    /\ j \in jobs /\ j.kind = "analyze" /\ j.pc = "saved"
    /\ isProcessingAI' = FALSE
    /\ jobs' = jobs \ {j}
    /\ UNCHANGED <<ui, editingItem, listed, dbItem, dbImages, fresh, used,
                   isRecording, recorders, mediaRecorderRef, aiSuggestion>>
    /\ UNCHANGED outsideItem

\* App.handleFileUpload(e, type) up to `await compressImage(file)`
HandleFileUpload(key) ==
    /\ ui = "app" /\ editingItem.live
    /\ jobs' = jobs \cup {[n |-> fresh, kind |-> "file", pc |-> "compress", id |-> 0,
                           D |-> editingItem, key |-> key]}
    /\ fresh' = fresh + 1
    /\ used' = [used EXCEPT !.uploads = @ + 1,
                            !.overlap = @ \/ Pending({"photo", "file"}) # {}]
    /\ UNCHANGED <<ui, editingItem, listed, dbItem, dbImages, isProcessingAI,
                   isRecording, recorders, mediaRecorderRef, aiSuggestion>>
    /\ UNCHANGED outsideItem

\* handleFileUpload after the compression: a new image id, up to
\* `await db.images.add(newImage)`
Compressed(j) ==
    /\ j \in jobs /\ j.kind = "file" /\ j.pc = "compress"
    /\ dbImages' = dbImages \cup {fresh}
    /\ jobs' = (jobs \ {j}) \cup {[j EXCEPT !.pc = "add", !.id = fresh]}
    /\ fresh' = fresh + 1
    /\ UNCHANGED <<ui, editingItem, listed, dbItem, used, isProcessingAI,
                   isRecording, recorders, mediaRecorderRef, aiSuggestion>>
    /\ UNCHANGED outsideItem

\* handleFileUpload after the add: updatedImages from the editingItem it
\* closed over, up to `await db.items.update`
ImageAdded(j) ==
    /\ j \in jobs /\ j.kind = "file" /\ j.pc = "add"
    /\ dbItem' = DbUpdate(dbItem, j.key, Append(j.D[j.key], j.id))
    /\ jobs' = (jobs \ {j}) \cup {At(j, "update")}
    /\ UNCHANGED <<ui, editingItem, listed, dbImages, fresh, used, isProcessingAI,
                   isRecording, recorders, mediaRecorderRef, aiSuggestion>>
    /\ UNCHANGED outsideItem

\* handleFileUpload after the update: setEditingItem(prev => ...), setItems(map)
ItemUpdated(j) ==
    /\ j \in jobs /\ j.kind = "file" /\ j.pc = "update"
    /\ editingItem' = Functional(editingItem, j.key, Append(j.D[j.key], j.id))
    /\ jobs' = jobs \ {j}
    /\ UNCHANGED <<ui, listed, dbItem, dbImages, fresh, used, isProcessingAI,
                   isRecording, recorders, mediaRecorderRef, aiSuggestion>>
    /\ UNCHANGED outsideItem

\* App.deleteItem, confirmed, up to `await db.items.delete(id)`
DeleteItem ==
    /\ ui = "app" /\ editingItem.live
    /\ Pending({"delete"}) = {}
    /\ dbItem' = NullItem
    /\ jobs' = jobs \cup {[n |-> fresh, kind |-> "delete", pc |-> "item", id |-> 0,
                           D |-> editingItem, key |-> "none"]}
    /\ fresh' = fresh + 1
    /\ UNCHANGED <<ui, editingItem, listed, dbImages, used, isProcessingAI,
                   isRecording, recorders, mediaRecorderRef, aiSuggestion>>
    /\ UNCHANGED outsideItem

\* deleteItem after the item is gone: up to
\* `await db.images.where('itemId').equals(id).delete()`
ItemDeleted(j) ==
    /\ j \in jobs /\ j.kind = "delete" /\ j.pc = "item"
    /\ dbImages' = {}
    /\ jobs' = (jobs \ {j}) \cup {At(j, "images")}
    /\ UNCHANGED <<ui, editingItem, listed, dbItem, fresh, used, isProcessingAI,
                   isRecording, recorders, mediaRecorderRef, aiSuggestion>>
    /\ UNCHANGED outsideItem

\* deleteItem after the images are gone: setItems(filter), setEditingItem(null)
ImagesDeleted(j) ==
    /\ j \in jobs /\ j.kind = "delete" /\ j.pc = "images"
    /\ listed' = FALSE
    /\ editingItem' = NullItem
    /\ jobs' = jobs \ {j}
    /\ used' = [used EXCEPT !.deleted = TRUE]
    /\ UNCHANGED <<ui, dbItem, dbImages, fresh, isProcessingAI, isRecording,
                   recorders, mediaRecorderRef, aiSuggestion>>
    /\ UNCHANGED outsideItem

---------------------------------------------------------------------------
(* Voice notes and AI suggestions on the item *)

\* the recorder with identity id
Recorder(id) == CHOOSE r \in recorders : r.id = id

\* the recorders with r replaced by its new state
Replaced(r, r2) == (recorders \ {r}) \cup {r2}

\* the record button: DetailModal's onClick={isRecording ? stopRecording :
\* startRecording}, App's handleVoiceRecord (disabled while isAiProcessing).
\* Stopping: mediaRecorderRef.current?.stop(), which queues the stop event
\* (and throws on a recorder that is not recording), then setIsRecording(false).
\* Starting: up to `await getUserMedia`
RecordButton ==
    /\ editingItem.live
    /\ ui = "app" => ~isProcessingAI
    /\ used' = [used EXCEPT !.presses = @ + 1,
                            !.doubled = @ \/ (~isRecording /\ Pending({"mic"}) # {})]
    /\ IF isRecording
       THEN IF mediaRecorderRef = 0
            THEN /\ isRecording' = FALSE
                 /\ UNCHANGED <<recorders, jobs, fresh>>
            ELSE IF Recorder(mediaRecorderRef).state = "recording"
            THEN /\ recorders' = Replaced(Recorder(mediaRecorderRef),
                                   [Recorder(mediaRecorderRef) EXCEPT !.state = "inactive"])
                 /\ jobs' = jobs \cup
                       {[n |-> fresh, kind |-> "onstop", pc |-> "event",
                         id |-> mediaRecorderRef, D |-> Recorder(mediaRecorderRef).D,
                         key |-> "none"]}
                 /\ fresh' = fresh + 1
                 /\ isRecording' = FALSE
            ELSE UNCHANGED <<isRecording, recorders, jobs, fresh>>
       ELSE /\ jobs' = jobs \cup {[n |-> fresh, kind |-> "mic", pc |-> "permission",
                                   id |-> 0, D |-> editingItem, key |-> "none"]}
            /\ fresh' = fresh + 1
            /\ UNCHANGED <<isRecording, recorders>>
    /\ UNCHANGED <<ui, editingItem, listed, dbItem, dbImages, isProcessingAI,
                   mediaRecorderRef, aiSuggestion>>
    /\ UNCHANGED outsideItem

\* getUserMedia settles: new MediaRecorder(stream), its onstop closing over
\* the handler's values, start(), the ref, setIsRecording(true); or the catch
MicAnswered(j, ok) ==
    /\ j \in jobs /\ j.kind = "mic"
    /\ jobs' = jobs \ {j}
    /\ IF ok
       THEN /\ recorders' = recorders \cup
                  {[id |-> fresh, state |-> "recording", tracks |-> TRUE, D |-> j.D]}
            /\ mediaRecorderRef' = fresh
            /\ isRecording' = TRUE
            /\ fresh' = fresh + 1
       ELSE UNCHANGED <<recorders, mediaRecorderRef, isRecording, fresh>>
    /\ UNCHANGED <<ui, editingItem, listed, dbItem, dbImages, used, isProcessingAI,
                   aiSuggestion>>
    /\ UNCHANGED outsideItem

\* the recorder's onstop up to the await of the transcription call
OnStop(j) ==
    /\ j \in jobs /\ j.kind = "onstop" /\ j.pc = "event"
    /\ isProcessingAI' = TRUE
    /\ jobs' = (jobs \ {j}) \cup {At(j, "call")}
    /\ UNCHANGED <<ui, editingItem, listed, dbItem, dbImages, fresh, used,
                   isRecording, recorders, mediaRecorderRef, aiSuggestion>>
    /\ UNCHANGED outsideItem

\* stream.getTracks().forEach(t => t.stop()) on the stream of recorder id
TracksStopped(id) == Replaced(Recorder(id), [Recorder(id) EXCEPT !.tracks = FALSE])

\* onstop after the transcription call.  DetailModal: updateField with the
\* description it closed over, up to its await; on failure the catch and the
\* finally.  App: setEditingItem(prev => ...) and db.items.update with the
\* description it closed over, up to the await; a rejected call ends the
\* handler there (no try around it)
TranscribeDone(j, ok) ==
    /\ j \in jobs /\ j.kind = "onstop" /\ j.pc = "call"
    /\ IF ok
       THEN /\ editingItem' =
                 IF ui = "detail" THEN With(j.D, "desc", Append(j.D.desc, "voice"))
                 ELSE Functional(editingItem, "desc", Append(j.D.desc, "voice"))
            /\ dbItem' = DbUpdate(dbItem, "desc", Append(j.D.desc, "voice"))
            /\ jobs' = (jobs \ {j}) \cup {At(j, "saved")}
            /\ UNCHANGED <<isProcessingAI, recorders>>
       ELSE /\ jobs' = jobs \ {j}
            /\ UNCHANGED <<editingItem, dbItem>>
            /\ IF ui = "detail"
               THEN /\ isProcessingAI' = FALSE
                    /\ recorders' = TracksStopped(j.id)
               ELSE UNCHANGED <<isProcessingAI, recorders>>
    /\ UNCHANGED <<ui, listed, dbImages, fresh, used, isRecording, mediaRecorderRef,
                   aiSuggestion>>
    /\ UNCHANGED outsideItem

\* onstop after the description was saved: the flag is cleared and the
\* tracks are stopped
TranscribeSaved(j) ==
    /\ j \in jobs /\ j.kind = "onstop" /\ j.pc = "saved"
    /\ isProcessingAI' = FALSE
    /\ recorders' = TracksStopped(j.id)
    /\ jobs' = jobs \ {j}
    /\ UNCHANGED <<ui, editingItem, listed, dbItem, dbImages, fresh, used,
                   isRecording, mediaRecorderRef, aiSuggestion>>
    /\ UNCHANGED outsideItem

\* App.analyzeDefectWithAi up to its first await (the button is disabled
\* while isAiProcessing or without a defect thumbnail)
AnalyzeDefectWithAi ==
    /\ ui = "app" /\ editingItem.live /\ Len(editingItem.images) > 0
    /\ ~isProcessingAI
    /\ isProcessingAI' = TRUE
    /\ jobs' = jobs \cup {[n |-> fresh, kind |-> "suggest", pc |-> "call", id |-> 0,
                           D |-> editingItem, key |-> "none"]}
    /\ fresh' = fresh + 1
    /\ used' = [used EXCEPT !.presses = @ + 1]
    /\ UNCHANGED <<ui, editingItem, listed, dbItem, dbImages, isRecording,
                   recorders, mediaRecorderRef, aiSuggestion>>
    /\ UNCHANGED outsideItem

\* analyzeDefectWithAi after the call: setAiSuggestion, or the early return
\* or the catch; the finally in each case
SuggestDone(j, ok) ==
    /\ j \in jobs /\ j.kind = "suggest"
    /\ aiSuggestion' = (ok \/ aiSuggestion)
    /\ isProcessingAI' = FALSE
    /\ jobs' = jobs \ {j}
    /\ UNCHANGED <<ui, editingItem, listed, dbItem, dbImages, fresh, used,
                   isRecording, recorders, mediaRecorderRef>>
    /\ UNCHANGED outsideItem

\* the apply button of the suggestion: the description with the suggestion
\* appended, in memory and to the database; setAiSuggestion(null)
ApplySuggestion ==
    /\ ui = "app" /\ editingItem.live /\ aiSuggestion
    /\ editingItem' = With(editingItem, "desc", Append(editingItem.desc, "ai"))
    /\ dbItem' = DbUpdate(dbItem, "desc", Append(editingItem.desc, "ai"))
    /\ aiSuggestion' = FALSE
    /\ UNCHANGED <<ui, listed, dbImages, jobs, fresh, used, isProcessingAI,
                   isRecording, recorders, mediaRecorderRef>>
    /\ UNCHANGED outsideItem

---------------------------------------------------------------------------
(* App: the category / subcategory / group tables and the active selection. *)
(* The state updates of one event handler, or of one stretch of an async    *)
(* handler between two awaits, are rendered together; the effects whose     *)
(* dependencies changed then run on the rendered values, and their updates  *)
(* are rendered in turn.                                                    *)

\* what the selection actions leave alone
outsideNav == <<sessionVars, fab, itemVars>>

\* INSPECTION_TEMPLATES[title], for a title that has one: per subcategory
\* the number of its groups
Template == <<1, 0>>

\* arr.filter(x => x[key] === v)
Filter(arr, key, v) == SelectSeq(arr, LAMBDA x : x[key] = v)

\* arr.find(x => x.id === id) is not undefined
Has(arr, id) == \E i \in 1 .. Len(arr) : arr[i].id = id

\* mutant: the effect fills an empty selection only
SubcategoryEffect_FillOnly(R) ==
    IF R.activeCategoryId # 0
    THEN LET subs == Filter(R.subcategories, "categoryId", R.activeCategoryId)
         IN  IF Len(subs) > 0
             THEN IF R.activeSubcategoryId = 0 THEN subs[1].id
                  ELSE R.activeSubcategoryId
             ELSE 0
    ELSE 0

\* the effect on [activeCategoryId, subcategories]: the value it leaves in
\* activeSubcategoryId
SubcategoryEffect(R) ==
    IF R.activeCategoryId # 0
    THEN LET subs == Filter(R.subcategories, "categoryId", R.activeCategoryId)
         IN  IF Len(subs) > 0
             THEN IF R.activeSubcategoryId = 0 \/ ~Has(subs, R.activeSubcategoryId)
                  THEN subs[1].id
                  ELSE R.activeSubcategoryId
             ELSE 0
    ELSE 0

\* the effect on [activeSubcategoryId, groups]: the value it leaves in
\* activeGroupId
GroupEffect(R) ==
    IF R.activeSubcategoryId # 0
    THEN LET gps == Filter(R.groups, "subcategoryId", R.activeSubcategoryId)
         IN  IF Len(gps) > 0
             THEN IF R.activeGroupId = 0 \/ ~Has(gps, R.activeGroupId)
                  THEN gps[1].id
                  ELSE R.activeGroupId
             ELSE 0
    ELSE 0

\* the render R after the render P: the effects whose dependencies differ
\* run on R, and so on until a render changes nothing
RECURSIVE Settle(_, _)
Settle(P, R) ==
    LET R2 == [R EXCEPT
                 !.activeSubcategoryId =
                     IF <<P.activeCategoryId, P.subcategories>>
                            # <<R.activeCategoryId, R.subcategories>>
                     THEN SubcategoryEffect(R) ELSE @,
                 !.activeGroupId =
                     IF <<P.activeSubcategoryId, P.groups>>
                            # <<R.activeSubcategoryId, R.groups>>
                     THEN GroupEffect(R) ELSE @]
    IN  IF R2 = R THEN R ELSE Settle(R, R2)

\* one state update: setX(value) or setX(prev => [...prev, ...value])
Update(R, u) ==
    IF u[1] \in {"categories", "subcategories", "groups"}
    THEN [R EXCEPT ![u[1]] = @ \o u[2]]
    ELSE [R EXCEPT ![u[1]] = u[2]]

RECURSIVE UpdateAll(_, _)
UpdateAll(R, us) == IF us = <<>> THEN R ELSE UpdateAll(Update(R, Head(us)), Tail(us))

\* mutant: every update is rendered, with its effects, before the next one
RECURSIVE Commit_OneByOne(_, _)
Commit_OneByOne(R, us) ==
    IF us = <<>> THEN R
    ELSE Commit_OneByOne(Settle(R, Update(R, Head(us))), Tail(us))

\* the updates us made on the rendered state R, rendered as one batch
Commit(R, us) == Settle(R, UpdateAll(R, us))

\* an async add resumes: the ghost field notes whether the selection it was
\* made under has changed meanwhile
Resumed(R, t) ==
    [R EXCEPT !.pending = @ \ {t},
              !.crossed = @ \/ (t.kind = "subcategory" /\ t.parent # R.activeCategoryId)
                            \/ (t.kind = "template" /\ t.parent # R.activeCategoryId)
                            \/ (t.kind = "group" /\ t.parent # R.activeSubcategoryId)]

\* handleAddCategory up to `await db.categories.add(newCat)`; the title
\* typed may be one that has a template
HandleAddCategory(tpl) ==
    /\ nav' = [nav EXCEPT !.made = @ + 1,
                          !.pending = @ \cup {[kind |-> "category", id |-> nav.made + 1,
                                               parent |-> 0, tpl |-> tpl]}]
    /\ UNCHANGED outsideNav

\* handleAddCategory after the await
CategoryAdded(t) ==
    /\ t \in nav.pending /\ t.kind = "category"
    /\ nav' = Commit(Resumed(nav, t),
                     << <<"categories", <<[id |-> t.id, tpl |-> t.tpl]>> >>,
                        <<"activeCategoryId", t.id>> >>)
    /\ UNCHANGED outsideNav

\* handleAddSubcategory up to `await db.subcategories.add(newSub)`
HandleAddSubcategory ==
    /\ nav.activeCategoryId # 0
    /\ nav' = [nav EXCEPT !.made = @ + 1,
                          !.pending = @ \cup {[kind |-> "subcategory", id |-> nav.made + 1,
                                               parent |-> nav.activeCategoryId,
                                               tpl |-> FALSE]}]
    /\ UNCHANGED outsideNav

\* handleAddSubcategory after the await
SubcategoryAdded(t) ==
    /\ t \in nav.pending /\ t.kind = "subcategory"
    /\ nav' = Commit(Resumed(nav, t),
                     << <<"subcategories", <<[id |-> t.id, categoryId |-> t.parent]>> >>,
                        <<"activeSubcategoryId", t.id>> >>)
    /\ UNCHANGED outsideNav

\* handleAddGroup up to `await db.groups.add(newGroup)`
HandleAddGroup ==
    /\ nav.activeSubcategoryId # 0
    /\ nav' = [nav EXCEPT !.made = @ + 1,
                          !.pending = @ \cup {[kind |-> "group", id |-> nav.made + 1,
                                               parent |-> nav.activeSubcategoryId,
                                               tpl |-> FALSE]}]
    /\ UNCHANGED outsideNav

\* handleAddGroup after the await
GroupAdded(t) ==
    /\ t \in nav.pending /\ t.kind = "group"
    /\ nav' = Commit(Resumed(nav, t),
                     << <<"groups", <<[id |-> t.id, subcategoryId |-> t.parent]>> >>,
                        <<"activeGroupId", t.id>> >>)
    /\ UNCHANGED outsideNav

\* the subcategories importTemplate creates, with ids from first on
NewSubcats(first, cat) ==
    [i \in 1 .. Len(Template) |-> [id |-> first + i - 1, categoryId |-> cat]]

\* the groups importTemplate creates: those of the template's subcategories
\* in turn, with ids from first on
RECURSIVE NewGroups(_, _, _)
NewGroups(first, subs, i) ==
    IF i > Len(Template) THEN <<>>
    ELSE [k \in 1 .. Template[i] |-> [id |-> first + k - 1, subcategoryId |-> subs[i].id]]
         \o NewGroups(first + Template[i], subs, i + 1)

\* the ids one import uses
TemplateIds == Len(Template) + Template[1] + Template[2]

\* importTemplate up to its awaits (the button shows for an active
\* subcategory without groups while no group is active)
ImportTemplate ==
    /\ nav.activeCategoryId # 0
    /\ nav.activeSubcategoryId # 0 /\ nav.activeGroupId = 0
    /\ Filter(nav.groups, "subcategoryId", nav.activeSubcategoryId) = <<>>
    /\ \E i \in 1 .. Len(nav.categories) :
          nav.categories[i].id = nav.activeCategoryId /\ nav.categories[i].tpl
    /\ nav' = [nav EXCEPT !.made = @ + TemplateIds,
                          !.pending = @ \cup {[kind |-> "template", id |-> nav.made + 1,
                                               parent |-> nav.activeCategoryId,
                                               tpl |-> TRUE]}]
    /\ UNCHANGED outsideNav

\* importTemplate after the bulkAdd awaits
TemplateImported(t) ==
    /\ t \in nav.pending /\ t.kind = "template"
    /\ LET subs == NewSubcats(t.id, t.parent)
       IN  nav' = Commit(Resumed(nav, t),
                         << <<"subcategories", subs>>,
                            <<"groups", NewGroups(t.id + Len(Template), subs, 1)>>,
                            <<"activeSubcategoryId", subs[1].id>> >>)
    /\ UNCHANGED outsideNav

\* a category tab: setActiveCategoryId(cat.id)
SelectCategory(id) ==
    /\ Has(nav.categories, id)
    /\ nav' = Commit(nav, << <<"activeCategoryId", id>> >>)
    /\ UNCHANGED outsideNav

\* a subcategory pill (those of the active category are shown)
SelectSubcategory(id) ==
    /\ nav.activeCategoryId # 0
    /\ Has(Filter(nav.subcategories, "categoryId", nav.activeCategoryId), id)
    /\ nav' = Commit(nav, << <<"activeSubcategoryId", id>> >>)
    /\ UNCHANGED outsideNav

\* a group pill (those of the active subcategory are shown)
SelectGroup(id) ==
    /\ nav.activeSubcategoryId # 0
    /\ Has(Filter(nav.groups, "subcategoryId", nav.activeSubcategoryId), id)
    /\ nav' = Commit(nav, << <<"activeGroupId", id>> >>)
    /\ UNCHANGED outsideNav

---------------------------------------------------------------------------
(* Specifications *)

\* Every event in every order; snapshots and selections are budgeted
Next ==
    \/ nextId <= MaxPushes /\ \E dim \in ImgDims : ImgOnload(dim)
    \/ nextId <= MaxPushes /\ \E pos \in Pos : StartDrawing(pos)
    \/ \E pos \in Pos : Draw(pos)
    \/ (isDrawing => nextId <= MaxPushes) /\ StopDrawing
    \/ HandleUndo
    \/ selects < MaxSelects /\ \E t \in Tools : SelectTool(t)
    \/ selects < MaxSelects /\ \E c \in Palette : SelectColor(c)

Spec == Init /\ [][Next]_vars

\* Long sessions with the default tool and color: enough commits to fill
\* the history and evict from it.  Gestures start after the image has loaded and undo is
\* explored once ten snapshots were pushed
\* (Spec covers undo on short histories).
NextCap ==
    \/ nextId <= MaxPushesCap /\ \E dim \in ImgDims : ImgOnload(dim)
    \/ loaded /\ nextId <= MaxPushesCap /\ \E pos \in Pos : StartDrawing(pos)
    \/ \E pos \in Pos : Draw(pos)
    \/ (isDrawing => nextId <= MaxPushesCap) /\ StopDrawing
    \/ nextId > KeepOnPush + 1 /\ HandleUndo

SpecCap == Init /\ [][NextCap]_vars

\* An editor session with its host: gestures and undo with the default tool,
\* save, the export callback, cancel, and opening the editor again
NextHost ==
    \/ editing = "photo" /\ nextId <= MaxPushesHost /\ \E dim \in ImgDims : ImgOnload(dim)
    \/ editing = "photo" /\ nextId <= MaxPushesHost /\ \E pos \in Pos : StartDrawing(pos)
    \/ editing = "photo" /\ \E pos \in Pos : Draw(pos)
    \/ editing = "photo" /\ (isDrawing => nextId <= MaxPushesHost) /\ StopDrawing
    \/ editing = "photo" /\ HandleUndo
    \/ editing = "photo" /\ host.saves < MaxSaves /\ HandleSave
    \/ editing = "annot" /\ AnnotOnload
    \/ editing = "annot" /\ objects < MaxObjects /\ AddObject
    \/ editing = "annot" /\ AnnotUndo
    \/ editing = "annot" /\ host.saves < MaxSaves /\ AnnotSave
    \/ \E e \in inflight : \E ok \in BOOLEAN : ExportDone(e, ok)
    \/ editing # "none" /\ Cancel
    \/ OpenEditor

SpecHost == InitHost /\ [][NextHost]_vars

\* Pointer events at every client point of every displayed canvas
NextPos ==
    \E cx \in 0 .. MaxClient, cy \in 0 .. MaxClient, o \in RectOrigins,
       dim \in CanvasSizes :
        \E r \in RectSizes(dim) : PointerEvent(cx, cy, o, dim, r)

SpecPos == Init /\ [][NextPos]_vars

\* Touch gestures that the system may cancel
NextTouch ==
    \/ nextId <= MaxPushesHost /\ \E dim \in ImgDims : ImgOnload(dim)
    \/ nextId <= MaxPushesHost /\ \E pos \in Pos : StartDrawing(pos)
    \/ \E pos \in Pos : Draw(pos)
    \/ (isDrawing => nextId <= MaxPushesHost) /\ StopDrawing
    \/ TouchCancel

SpecTouch == Init /\ [][NextTouch]_vars

\* Circle and arrow previews for every anchor and current point looked at
NextGeom ==
    \E tool \in {"CIRCLE", "ARROW"}, a \in Coords \X Coords, b \in Coords \X Coords :
        ShapeFrame(tool, a, b)

SpecGeom == Init /\ [][NextGeom]_vars

\* The annotator's object list under adds, strokes and undo in every order
NextAnnot ==
    \/ FabricOnload
    \/ fab.made < MaxMade /\ \E kind \in {"circle", "arrow"} : AddShape(kind)
    \/ SetPencil
    \/ fab.made < MaxMade /\ PencilStroke
    \/ FabricUndo

SpecAnnot == Init /\ [][NextAnnot]_vars

\* the item shown by either component
InitItem == Mounted /\ HostInitial("photo") /\ fab = NoFabric /\ nav = NoNav
            /\ \E u \in {"detail", "app"} : ItemInitial(u)

\* Photo uploads, status changes, description edits and the delete button on
\* one item during one editing session, with every await resuming in any order
NextItem ==
    \/ used.uploads < MaxUploads /\ HandlePhotoUpload
    \/ \E j \in jobs : PhotoAdded(j)
    \/ \E j \in jobs : PhotoListed(j)
    \/ \E j \in jobs : \E ok \in BOOLEAN : AnalyzeDone(j, ok)
    \/ \E j \in jobs : AnalyzeSaved(j)
    \/ used.uploads < MaxUploads /\ \E key \in {"images", "recordImages"} : HandleFileUpload(key)
    \/ \E j \in jobs : Compressed(j)
    \/ \E j \in jobs : ImageAdded(j)
    \/ \E j \in jobs : ItemUpdated(j)
    \/ used.edits < MaxEdits /\ \E s \in {"pass", "fail"} : HandleStatusChange(s)
    \/ used.edits < MaxEdits /\ \E s \in {"pass", "fail"} : UpdateItemStatus(s)
    \/ \E j \in jobs : StatusUpdated(j)
    \/ used.edits < MaxEdits /\ EditDescription
    \/ DeleteItem
    \/ \E j \in jobs : ItemDeleted(j)
    \/ \E j \in jobs : ImagesDeleted(j)

SpecItem == InitItem /\ [][NextItem]_vars

\* App after loadData found two categories, the first with a template for
\* its title, and selected the first
InitNav ==
    /\ Mounted /\ HostInitial("photo") /\ fab = NoFabric /\ ItemInitial("app")
    /\ nav = [NoNav EXCEPT !.categories = <<[id |-> 1, tpl |-> TRUE],
                                            [id |-> 2, tpl |-> FALSE]>>,
                           !.activeCategoryId = 1, !.made = 2]

\* Selections, additions and template imports in every order, each add
\* resuming at any later time
NextNav ==
    \/ nav.made < MaxNavIds /\ \E tpl \in BOOLEAN : HandleAddCategory(tpl)
    \/ \E t \in nav.pending : CategoryAdded(t)
    \/ nav.made < MaxNavIds /\ HandleAddSubcategory
    \/ \E t \in nav.pending : SubcategoryAdded(t)
    \/ nav.made < MaxNavIds /\ HandleAddGroup
    \/ \E t \in nav.pending : GroupAdded(t)
    \/ nav.made + TemplateIds <= MaxNavIds /\ ImportTemplate
    \/ \E t \in nav.pending : TemplateImported(t)
    \/ \E id \in 1 .. nav.made : SelectCategory(id)
    \/ \E id \in 1 .. nav.made : SelectSubcategory(id)
    \/ \E id \in 1 .. nav.made : SelectGroup(id)

SpecNav == InitNav /\ [][NextNav]_vars

\* an async handler resumes after the AI call or the stop event it waits for
ResumeAi ==
    \/ \E j \in jobs : OnStop(j)
    \/ \E j \in jobs : \E ok \in BOOLEAN : TranscribeDone(j, ok)
    \/ \E j \in jobs : TranscribeSaved(j)
    \/ \E j \in jobs : \E ok \in BOOLEAN : AnalyzeDone(j, ok)
    \/ \E j \in jobs : AnalyzeSaved(j)
    \/ \E j \in jobs : \E ok \in BOOLEAN : SuggestDone(j, ok)

\* Voice notes and AI analysis on one item, with the edits, status changes
\* and the photo upload that can meet them
NextVoice ==
    \/ used.presses < MaxPresses /\ RecordButton
    \/ \E j \in jobs : \E ok \in BOOLEAN : MicAnswered(j, ok)
    \/ ResumeAi
    \/ used.presses < MaxPresses /\ AnalyzeDefectWithAi
    \/ ApplySuggestion
    \/ used.edits < MaxEdits /\ EditDescription
    \/ used.edits < MaxEdits /\ \E s \in {"pass", "fail"} : HandleStatusChange(s)
    \/ used.edits < MaxEdits /\ \E s \in {"pass", "fail"} : UpdateItemStatus(s)
    \/ \E j \in jobs : StatusUpdated(j)
    \/ used.uploads < MaxUploadsVoice /\ HandlePhotoUpload
    \/ \E j \in jobs : PhotoAdded(j)
    \/ \E j \in jobs : PhotoListed(j)
    \/ used.uploads < MaxUploadsVoice /\ HandleFileUpload("images")
    \/ \E j \in jobs : Compressed(j)
    \/ \E j \in jobs : ImageAdded(j)
    \/ \E j \in jobs : ItemUpdated(j)

SpecVoice == InitItem /\ [][NextVoice]_vars

\* a settled promise or a queued event runs its callback: the handlers
\* waiting for an AI call or a stop event do resume
SpecVoiceFair == SpecVoice /\ WF_vars(ResumeAi)

---------------------------------------------------------------------------
(* Properties *)

\* C1: once the image has loaded, for every sequence of start / move / end /
\* leave / tool / color / undo events that follows, whenever no gesture is
\* active the canvas content equals the last element of the history.
C1_Quiescence ==
    (loaded /\ ~earlyInput /\ ~isDrawing)
        => (Len(history) >= 1 /\ canvas = Last(history).data)

\* a stroke was committed and then undone, after load, and the canvas is idle
C1_Witness ==
    /\ loaded /\ ~earlyInput /\ ~isDrawing
    /\ ges.phase = "undone" /\ ges.n >= 1 /\ lastEv = "undo"
    /\ Len(history) >= 2 /\ Painted(canvas) # {}

\* The pre-gesture snapshot of the recorded gesture: the history item that
\* was current at gesture start (the canvas itself while nothing was saved)
PreSnapshot == IF Len(ges.h0) > 0 THEN Last(ges.h0).data ELSE ges.c0

\* a plain shape gesture (start, N >= 1 moves, end) has just been committed
ShapeCommitted ==
    /\ ges.phase = "committed" /\ ges.clean /\ ges.n >= 1
    /\ activeTool \in {"CIRCLE", "ARROW"}

\* C2: for a Circle or Arrow gesture with N >= 1 moves followed by
\* gesture-end, the committed canvas equals the pre-gesture snapshot with
\* exactly one shape drawn on it, computed from (anchor, last move position);
\* nothing of an earlier preview frame remains.
C2_NoTrail ==
    ShapeCommitted
        => canvas = Stroke(PreSnapshot, ShapeCells(activeTool, startPos, ges.last), color)

\* the same statement for the gestures that start with a snapshot of the
\* canvas's own size in the history (kept for comparison; not a claim)
NoTrailWithSnapshot ==
    (ShapeCommitted /\ Len(ges.h0) > 0 /\ DOMAIN Last(ges.h0).data.px = DOMAIN canvas.px)
        => canvas = Stroke(PreSnapshot, ShapeCells(activeTool, startPos, ges.last), color)

\* C3: whenever the history holds at most one snapshot, an undo leaves the
\* history and the canvas unchanged, however often it is invoked, and no
\* step takes a non-empty history below one entry.
C3_UndoFloorNoop ==
    [][ /\ (HandleUndo /\ Len(history) <= 1) => UNCHANGED <<history, canvas>>
        /\ Len(history) >= 1 => Len(history') >= 1 ]_vars

\* after at least one commit, undo has just been invoked on a loaded editor
\* whose history is down to a single snapshot, and returned at the floor
C3_Witness ==
    /\ lastEv = "undoFloor" /\ loaded /\ Len(history) = 1
    /\ ges.phase = "none" /\ ~isDrawing /\ nextId >= 3

\* C4 (as stated): the history holds at least one snapshot in every
\* reachable state, including those before the image has finished loading.
C4_Original == Len(history) >= 1

\* C4 (amended): from the completion of the image load on, the history
\* holds at least one snapshot in every reachable state.
C4_NonEmptyOnceLoaded == loaded => Len(history) >= 1

\* after the load, every undoable snapshot has been undone
C4_Witness == loaded /\ lastEv = "undo" /\ Len(history) = 1 /\ undos >= 1

\* C5: an undo with at least two snapshots removes exactly the most recent
\* one, keeps the others in order, and leaves the canvas equal to the new
\* most recent snapshot.
C5_UndoPops ==
    [][ (HandleUndo /\ Len(history) >= 2)
            => /\ history' = SubSeq(history, 1, Len(history) - 1)
               /\ canvas' = Last(history').data ]_vars

\* the history part alone, and the canvas part where the restored snapshot
\* has the canvas's size (kept for comparison; not a claim)
UndoPopsSameSize ==
    [][ (HandleUndo /\ Len(history) >= 2)
            => /\ history' = SubSeq(history, 1, Len(history) - 1)
               /\ (DOMAIN Last(history').data.px = DOMAIN canvas.px
                      => canvas' = Last(history').data) ]_vars

Ids(h) == {h[i].id : i \in 1 .. Len(h)}

\* C6: in every reachable state the history holds at most 10 snapshots,
\* whatever the number of committed gestures.
C6_HistoryBound == Len(history) <= 10

\* the history is full and a push has already evicted from it
C6_Witness == Len(history) = 10 /\ evicted # {} /\ lastEv = "commit"

\* C7: a push onto a full history drops only the oldest entry and appends
\* the new one (below the cap it only appends), the history is in push order
\* and, until an undo, is exactly the most recent pushes; an evicted snapshot
\* is never in the history again, so no undo puts it back on the canvas.
C7_SlidingWindow ==
    [][ /\ (nextId' # nextId /\ Len(history) = 10)
            => history' = Append(Tail(history), [id |-> nextId, data |-> canvas'])
        /\ (nextId' # nextId /\ Len(history) < 10)
            => history' = Append(history, [id |-> nextId, data |-> canvas'])
        /\ \A i \in 1 .. Len(history') - 1 : history'[i].id < history'[i + 1].id
        /\ undos' = 0
            => \A i \in 1 .. Len(history') : history'[i].id = nextId' - Len(history') + i - 1
        /\ Ids(history') \cap evicted' = {}
        /\ (HandleUndo /\ Len(history) >= 2)
            => /\ canvas' = Last(history').data
               /\ Last(history').id \notin evicted ]_vars

\* after an eviction, undo was invoked down to the floor and once more: the
\* one snapshot left is not the evicted initial one
C7_Witness ==
    /\ evicted # {} /\ Len(history) = 1 /\ lastEv = "undoFloor"
    /\ history[1].id > 1 /\ canvas = history[1].data

\* C8: for any committed gesture, an undo issued immediately after the
\* commit leaves the canvas equal to the snapshot that was current before
\* the gesture started, and the history equal to the pre-gesture history
\* (when the history was below the cap).
C8_CommitUndoRoundTrip ==
    (ges.phase = "undone" /\ ges.clean /\ Len(ges.h0) < 10)
        => (history = ges.h0 /\ canvas = PreSnapshot)

\* the same statement for the gestures that start with a snapshot of the
\* canvas's own size in the history (kept for comparison; not a claim)
RoundTripWithSnapshot ==
    (/\ ges.phase = "undone" /\ ges.clean /\ Len(ges.h0) < 10
     /\ Len(ges.h0) > 0 /\ DOMAIN PreSnapshot.px = DOMAIN canvas.px)
        => (history = ges.h0 /\ canvas = PreSnapshot)

\* C9: after the image load followed by k committed gestures (k below the
\* cap) with any tool switches, and no input before the load, the history
\* holds exactly k + 1 snapshots; one undo then returns the canvas to its
\* content after gesture k - 1 (the content captured by the push before the
\* last one).  Here k = nextId - 2.
C9_GestureCount ==
    (loaded /\ ~earlyInput /\ nextId - 2 < 10)
        => /\ undos = 0 => Len(history) = (nextId - 2) + 1
           /\ (undos = 1 /\ lastEv = "undo")
                => /\ Len(history) = nextId - 2
                   /\ Last(history).id = nextId - 2
                   /\ canvas = commitLog[1]

\* a pen stroke, a switch to the arrow tool, an arrow gesture and one undo
C9_Witness ==
    /\ loaded /\ ~earlyInput /\ undos = 1 /\ lastEv = "undo" /\ nextId = 4
    /\ activeTool = "ARROW" /\ ges.phase = "undone" /\ ges.n >= 1
    /\ Len(history) = 2 /\ Painted(canvas) # {}

\* C10: a gesture-end or pointer-leave while a gesture is active pushes
\* exactly one snapshot of the current canvas and returns to Idle; while
\* Idle it pushes nothing and changes nothing.
C10_StopCommitsOnce ==
    [][ StopDrawing
          => IF isDrawing
             THEN /\ ~isDrawing'
                  /\ nextId' = nextId + 1
                  /\ Len(history') = Min(Len(history) + 1, 10)
                  /\ Last(history') = [id |-> nextId, data |-> canvas]
                  /\ Ids(history') \ {nextId} \subseteq Ids(history)
                  /\ canvas' = canvas
             ELSE UNCHANGED <<history, nextId, isDrawing, canvas>> ]_vars

\* after a committed gesture, a second end event (mouse-up then mouse-leave)
\* arrived while Idle and the history still holds one snapshot per commit
C10_Witness ==
    /\ lastEv = "stop" /\ loaded /\ ~earlyInput /\ ~isDrawing /\ undos = 0
    /\ nextId >= 3 /\ Len(history) = nextId - 1

\* C11: a gesture-start received while a gesture is already active is
\* ignored: it leaves the anchor point, the open pen path, the canvas and
\* the active flag unchanged.
C11_NoNestedGesture ==
    [][ ((\E pos \in Pos : StartDrawing(pos)) /\ isDrawing)
            => UNCHANGED <<startPos, ctx, canvas, isDrawing>> ]_vars

\* C12: a snapshot is pushed only when no gesture is in progress at the
\* instant of capture: at image load with the machine Idle, or as the commit
\* step of a gesture-end; never while a gesture is still active.
C12_PushOnlyWhenIdle ==
    [][ nextId' # nextId
            => /\ ~isDrawing'
               /\ lastEv' = "load" => ~isDrawing ]_vars

\* C13: a gesture-start, gesture-move or gesture-end arriving before the
\* canvas has been initialised from the image changes neither the gesture
\* state, nor the canvas, nor the history.
C13_NotReadyIgnored ==
    [][ (/\ ~loaded
         /\ \/ \E pos \in Pos : StartDrawing(pos)
            \/ \E pos \in Pos : Draw(pos)
            \/ StopDrawing)
            => UNCHANGED <<isDrawing, startPos, ctx, canvas, history>> ]_vars

\* C14: when serialisation of the canvas yields no payload (toBlob delivers
\* null), the caller receives an explicit failure signal, and the editor
\* session stays open so that save can be retried.
C14_ExportFailureExplicit ==
    [][ (\E e \in inflight : e.kind = "photo" /\ ExportDone(e, FALSE))
            => /\ host'.got = "failure"
               /\ editing' = editing ]_vars

\* C15: the save callback is never invoked with an empty or null payload, in
\* either editor, so a failed serialisation never overwrites the stored
\* image blob with nothing.
C15_NoNullPayload == host.got # "nullPayload" /\ stored.blob # NullBlob

\* C16: a save is never started while a gesture is active, so no export in
\* flight holds the canvas of an unfinished gesture.
C16_ExportOnlyWhenIdle ==
    [][ HandleSave => ~isDrawing ]_vars

\* C17: if save is requested and the editor is then closed before the export
\* callback fires, the later callback does not deliver the blob to the host
\* and the stored image is not modified.
C17_DiscardAfterClose ==
    [][ (\E e \in inflight : \E ok \in BOOLEAN :
            /\ ExportDone(e, ok)
            /\ editing = "none")
            => /\ stored' = stored
               /\ host'.got = host.got ]_vars

\* C18: closing the editor through cancel, after any sequence of gestures and
\* undos, delivers no payload to the host and leaves the stored blob and
\* annotation data of the image exactly as they were when the editor opened.
C18_CancelKeepsStored ==
    (lastEv = "cancel" /\ host.pure)
        => /\ stored = host.openStored
           /\ host.got = "cancel"
           /\ editing = "none"

\* the photo editor was cancelled after a committed gesture and an undo
C18_Witness ==
    /\ lastEv = "cancel" /\ host.pure /\ host.kind = "photo" /\ editing = "none"
    /\ loaded /\ nextId >= 3 /\ undos >= 1 /\ stored.blob = OriginalBlob

\* C19: the annotation document handed to the host on save is the document
\* supplied back to the editor as its initial data the next time the image is
\* opened for editing.
C19_AnnotationRoundTrip ==
    (editing = "annot" /\ stored.annotationData.present)
        => initialData = stored.annotationData

\* C20: getPos returns canvas pixel coordinates: the device point offset by
\* the rectangle origin and scaled by (canvas size / rectangle size), so a
\* press on the displayed image maps to the same location in the pixel buffer.
C20_CanvasSpace ==
    ptr.rw > 0
        => ptr.out = <<((ptr.cx - ptr.left) * ptr.cw) \div ptr.rw,
                       ((ptr.cy - ptr.top) * ptr.ch) \div ptr.rh>>

\* the same statement for a canvas displayed at its own pixel size (kept for
\* comparison; not a claim)
CanvasSpaceUnscaled ==
    (ptr.rw > 0 /\ ptr.rw = ptr.cw /\ ptr.rh = ptr.ch)
        => ptr.out = <<((ptr.cx - ptr.left) * ptr.cw) \div ptr.rw,
                       ((ptr.cy - ptr.top) * ptr.ch) \div ptr.rh>>

\* C21: the circle drawn for a Circle gesture is centred at the anchor
\* recorded at gesture-start and its radius squared equals dx^2 + dy^2 between
\* the anchor and the current point (anchor (10,10), point (10,20): radius 10).
C21_CircleGeometry ==
    geo.tool = "CIRCLE"
        => /\ geo.arc.cx = geo.a[1] /\ geo.arc.cy = geo.a[2]
           /\ geo.arc.r2 = (geo.b[1] - geo.a[1]) * (geo.b[1] - geo.a[1])
                           + (geo.b[2] - geo.a[2]) * (geo.b[2] - geo.a[2])
           /\ geo.arc.radius * geo.arc.radius <= geo.arc.r2
           /\ geo.arc.r2 < (geo.arc.radius + 1) * (geo.arc.radius + 1)
           /\ (geo.a = <<10, 10>> /\ geo.b = <<10, 20>>)
                => geo.arc = [cx |-> 10, cy |-> 10, r2 |-> 100, radius |-> 10]

\* the circle for anchor (10,10) and current point (10,20) was drawn
C21_Witness ==
    geo.tool = "CIRCLE" /\ geo.a = <<10, 10>> /\ geo.b = <<10, 20>> /\ geo.arc.radius = 10

\* |x - y| <= tol
Near(x, y, tol) == x - y <= tol /\ y - x <= tol

\* chevron line i as a vector from the arrow tip, in thousandths of a pixel
ChevronVec(i) == <<geo.ends[i][1] - geo.b[1] * 1000, geo.ends[i][2] - geo.b[2] * 1000>>

\* the shaft direction (cos, sin) in thousandths
ShaftDir ==
    LET angle == Atan2Deg(geo.b[2] - geo.a[2], geo.b[1] - geo.a[1])
    IN  <<Cos1000(angle), Sin1000(angle)>>

Dot(u, v) == u[1] * v[1] + u[2] * v[2]
Cross(u, v) == u[1] * v[2] - u[2] * v[1]

\* C22: both chevron segments start at the arrow tip and have length 15; they
\* point at +30 and -30 degrees from the reversed line direction, so their
\* end points are symmetric about the shaft; for anchor (0,0) and endpoint
\* (100,0) they end at (100 - 15 cos 30, +-15 sin 30).
C22_ArrowheadGeometry ==
    geo.tool = "ARROW"
        => /\ \A i \in {1, 2} :
                /\ Near(Dot(ChevronVec(i), ChevronVec(i)), 15 * 15 * 1000000, 225000)
                /\ Near(Dot(ChevronVec(i), ShaftDir), 0 - 15 * 866 * 1000, 30000)
           /\ Near(Cross(ShaftDir, ChevronVec(1)), 15 * 500 * 1000, 30000)
           /\ Near(Cross(ShaftDir, ChevronVec(2)), 0 - 15 * 500 * 1000, 30000)
           /\ (geo.a = <<0, 0>> /\ geo.b = <<100, 0>>)
                => geo.ends = << <<87010, 7500>>, <<87010, 0 - 7500>> >>

\* the arrow from (0,0) to (100,0) was drawn
C22_Witness ==
    /\ geo.tool = "ARROW" /\ geo.a = <<0, 0>> /\ geo.b = <<100, 0>>
    /\ geo.ends[1][2] = 7500

\* an arrow along a diagonal was drawn (C22 is not only about the axes)
ArrowOnDiagonal ==
    geo.tool = "ARROW" /\ geo.b[1] - geo.a[1] = 10 /\ geo.b[2] - geo.a[2] = 0 - 10

\* C23: a gesture-move event leaves the history array, the anchor point and
\* the gesture-active flag unchanged, for every tool (it changes only the
\* canvas and the context drawing on it).
C23_MoveFrame ==
    [][ (\E pos \in Pos : Draw(pos))
            => UNCHANGED <<history, startPos, isDrawing, activeTool, color, loaded>> ]_vars

\* a shape preview has just been painted on the loaded image
C23_Witness ==
    /\ lastEv = "move" /\ isDrawing /\ loaded /\ activeTool \in {"CIRCLE", "ARROW"}
    /\ Painted(canvas) # {} /\ Len(history) = 1

\* C24: a move event received while Idle is a complete no-op: canvas,
\* history, anchor and active flag are unchanged, so hovering never paints.
C24_HoverNoop ==
    [][ (~isDrawing /\ \E pos \in Pos : Draw(pos))
            => UNCHANGED <<canvas, ctx, history, startPos, isDrawing>> ]_vars

\* the pointer hovered over the canvas after a committed gesture
C24_Witness ==
    /\ lastEv = "hover" /\ ~isDrawing /\ loaded /\ nextId >= 3
    /\ ctx.pt # NoPt /\ canvas = Last(history).data

\* what a move to pos paints in the current state if the tool is `tool`
Rendered(tool, pos) ==
    IF tool = "PEN" THEN Stroke(canvas, LineTo(ctx, pos).path, ctx.style)
    ELSE Stroke(Restore(canvas, history), ShapeCells(tool, startPos, pos), color)

\* C25: the tool of a gesture is fixed at gesture-start: selecting another
\* tool while a gesture is active does not change how the following move
\* events of that gesture are rendered.
C25_ToolFixedAtStart ==
    [][ (isDrawing /\ \E t \in Tools : SelectTool(t))
            => \A pos \in Pos : Rendered(activeTool', pos) = Rendered(activeTool, pos) ]_vars

\* Rendered is what draw paints (kept for comparison; not a claim)
RenderedIsDraw ==
    [][ \A pos \in Pos : (isDrawing /\ Draw(pos)) => canvas' = Rendered(activeTool, pos) ]_vars

\* C26: the history is never modified while a gesture is active: between a
\* gesture-start and its gesture-end no snapshot is pushed or popped.
C26_HistoryFrozenInGesture ==
    [][ (isDrawing /\ isDrawing') => history' = history ]_vars

\* what C27 says of a move, and of the commit step itself
PenMoveAppends ==
    (isDrawing /\ activeTool = "PEN" /\ \E pos \in Pos : Draw(pos))
        => /\ ctx.path \subseteq ctx'.path
           /\ DOMAIN canvas'.px = DOMAIN canvas.px
           /\ \A p \in DOMAIN canvas'.px :
                 canvas'.px[p] = IF p \in ctx'.path THEN ctx'.style ELSE canvas.px[p]

\* C27: during a Pen gesture no move restores the canvas from the history
\* (cells off the path keep their content), the path only grows, and every
\* cell on it, painted by an earlier segment of the gesture, is painted after
\* each later move and at commit.
C27_PenAppendOnly ==
    [][ /\ PenMoveAppends
        /\ (isDrawing /\ activeTool = "PEN" /\ StopDrawing)
            => \A p \in ctx.path \cap DOMAIN canvas'.px : canvas'.px[p] = ctx.style ]_vars

\* the same statement without the commit (kept for comparison; not a claim):
\* every pen move appends, and the commit step leaves the canvas as it is
PenAppendOnlyMoves ==
    [][ PenMoveAppends /\ (StopDrawing => canvas' = canvas) ]_vars

\* C28: the stroke painted by a move event is in the color that is selected
\* at the time of that move, for each tool, and the color changes only
\* through an explicit palette selection.
C28_PaintsSelectedColor ==
    [][ /\ (isDrawing /\ \E pos \in Pos : Draw(pos)) => ctx'.style = color
        /\ color' # color => \E c \in Palette : SelectColor(c) ]_vars

\* C29: no gesture is silently abandoned: there is no reachable state in
\* which the pointer or touch interaction has ended or been cancelled while
\* the machine remains in the Gesturing state.
C29_NoAbandonedGesture ==
    lastEv \in {"commit", "stop", "touchcancel"} => ~isDrawing

\* C30: the initial snapshot is pushed exactly once per editor session: the
\* image load happens once and, with no prior input, leaves a history of
\* exactly one snapshot equal to the fitted image; from then on every
\* snapshot in the history has the dimensions of the canvas.
C30_InitialSnapshotOnce ==
    [][ /\ \A dim \in ImgDims :
              ImgOnload(dim)
                  => /\ ~loaded
                     /\ ~earlyInput
                          => /\ history' = <<[id |-> nextId, data |-> ImageCanvas(dim)]>>
                             /\ canvas' = ImageCanvas(dim)
        /\ (loaded /\ ~earlyInput)
              => /\ loaded' /\ Len(history') >= 1
                 /\ \A i \in 1 .. Len(history') :
                       DOMAIN history'[i].data.px = DOMAIN canvas'.px
                 /\ \A i \in 1 .. Len(history') :
                       history'[i].id = 1 => (i = 1 /\ history'[i] = history[1]) ]_vars

\* the image loaded with no prior input and two gestures were committed on it
C30_Witness ==
    /\ loaded /\ ~earlyInput /\ Len(history) = 3 /\ lastEv = "commit"
    /\ history[1] = [id |-> 1, data |-> ImageCanvas(<<2, 2>>)]

\* C31: snapshots are immutable copies: once pushed, the content of a
\* history entry never changes under any later drawing, preview restore,
\* undo or push, and no two history entries share the same underlying
\* buffer (the identity of the ImageData object).
C31_SnapshotsImmutable ==
    [][ /\ \A i \in 1 .. Len(history) : \A j \in 1 .. Len(history') :
              history'[j].id = history[i].id => history'[j].data = history[i].data
        /\ \A i \in 1 .. Len(history') : \A j \in 1 .. Len(history') :
              history'[i].id = history'[j].id => i = j ]_vars

\* a circle preview restored the canvas from a history that an undo has
\* shortened and that still holds two snapshots with different contents
C31_Witness ==
    /\ lastEv = "move" /\ activeTool = "CIRCLE" /\ undos >= 1
    /\ Len(history) >= 2
    /\ history[1].data # history[2].data
    /\ canvas # Last(history).data

\* C32: in the object-graph annotator, undo removes exactly the most
\* recently added object and leaves all earlier objects in order; with no
\* objects it is a no-op that changes nothing.
C32_AnnotUndoPopsLast ==
    [][ FabricUndo =>
          IF fab.ready /\ Len(fab.objs) > 0
          THEN /\ fab'.objs = SubSeq(fab.objs, 1, Len(fab.objs) - 1)
               /\ \A i \in 1 .. Len(fab'.objs) :
                     fab'.objs[i].id < fab.objs[Len(fab.objs)].id
               /\ fab'.made = fab.made /\ fab'.tool = fab.tool /\ fab'.ready
          ELSE /\ fab'.objs = fab.objs /\ fab'.made = fab.made
               /\ fab'.tool = fab.tool /\ fab'.ready = fab.ready ]_vars

\* an undo took the newest of three objects of different kinds off the canvas
C32_Witness ==
    /\ fab.ev = "undo" /\ fab.made = 3 /\ Len(fab.objs) = 2
    /\ fab.objs[1].kind # fab.objs[2].kind

\* the image id is in one of the item's lists
InLists(rec, id) ==
    \/ \E i \in 1 .. Len(rec.images) : rec.images[i] = id
    \/ \E i \in 1 .. Len(rec.recordImages) : rec.recordImages[i] = id

\* C33: no lost image reference under overlapping uploads: if two photo
\* uploads for the same item overlap in time, after both complete the
\* item's image list contains both new image ids, so every image record
\* stored for the item is referenced by one of the item's lists.
C33_NoLostImageReference ==
    (used.overlap /\ Pending({"photo", "file"}) = {} /\ dbItem.live)
        => \A id \in dbImages :
              /\ InLists(dbItem, id)
              /\ editingItem.live => InLists(editingItem, id)

\* kept for comparison; not a claim: uploads that do not overlap and meet no
\* other handler leave every stored image referenced
SequentialUploadsKeepReferences ==
    (~used.overlap /\ used.edits = 0 /\ jobs = {} /\ dbItem.live)
        => \A id \in dbImages : InLists(dbItem, id) /\ InLists(editingItem, id)

\* C36: deleting an item leaves no image for it: after deleteItem completes,
\* and after any upload for that item that was in flight at the time has
\* also completed, no image record with that item's id remains in the image
\* table and the item is absent from both the item table and the in-memory
\* list.
C36_DeleteLeavesNoImage ==
    (used.deleted /\ Pending({"photo", "file", "delete"}) = {})
        => dbImages = {} /\ ~dbItem.live /\ ~listed

\* C34: the AI-processing flag is always eventually cleared: after any voice
\* transcription or image analysis attempt, whether the external call
\* succeeds or fails, isAiProcessing returns to false and the microphone
\* stream tracks are stopped, so the AI and record buttons never stay
\* disabled forever.
C34_AiFlagEventuallyCleared ==
    /\ isProcessingAI ~> ~isProcessingAI
    /\ \A id \in 1 .. 2 * (MaxPresses + MaxUploadsVoice + MaxEdits) :
          (\E r \in recorders : r.id = id /\ r.state = "inactive")
              ~> (\E r \in recorders : r.id = id /\ ~r.tracks)

\* kept for comparison; not a claim: under DetailModal, whose handlers clear
\* the flag in a finally, the flag is always eventually cleared
DetailFlagEventuallyCleared ==
    (ui = "detail" /\ isProcessingAI) ~> ~isProcessingAI

\* C35: an asynchronous transcription or analysis result is appended to the
\* item's description as it is when the result arrives: description edits
\* and status changes made while the call was in flight are not overwritten
\* or reverted, and the in-memory item state equals the stored record once
\* all pending updates have completed.
C35_ResultAppendsToCurrent ==
    [][ /\ \A j \in jobs :
              /\ TranscribeDone(j, TRUE)
                    => /\ editingItem' = With(editingItem, "desc",
                                              Append(editingItem.desc, "voice"))
                       /\ dbItem' = With(dbItem, "desc", Append(dbItem.desc, "voice"))
              /\ AnalyzeDone(j, TRUE)
                    => /\ editingItem' = With(editingItem, "desc",
                                              Append(editingItem.desc, "ai"))
                       /\ dbItem' = With(dbItem, "desc", Append(dbItem.desc, "ai"))
        /\ (jobs' = {} /\ \E j \in jobs : TranscribeSaved(j) \/ AnalyzeSaved(j))
              => editingItem' = dbItem' ]_vars

\* kept for comparison; not a claim: a transcription that finds the item, in
\* memory and in the database, as it was when the recording was requested is
\* appended to the current description
ResultAppendsWhenUndisturbed ==
    [][ \A j \in jobs :
           (TranscribeDone(j, TRUE) /\ j.D = editingItem /\ dbItem = editingItem)
               => /\ editingItem' = With(editingItem, "desc",
                                         Append(editingItem.desc, "voice"))
                  /\ dbItem' = With(dbItem, "desc", Append(dbItem.desc, "voice")) ]_vars

\* C38: at most one audio recorder is active at any time: pressing the
\* record button repeatedly, including while the microphone-permission
\* request is still pending, never starts a second recorder whose stream is
\* left running and unreachable, and the isRecording flag is true exactly
\* when a started recorder has not yet been stopped.
C38_OneRecorder ==
    /\ Cardinality({r \in recorders : r.state = "recording"}) <= 1
    /\ \A r \in recorders : r.state = "recording" => r.id = mediaRecorderRef
    /\ isRecording <=> \E r \in recorders : r.state = "recording"

\* kept for comparison; not a claim: as long as the microphone was never
\* requested while an earlier request was pending, there is one recorder at
\* most, it is the one in the ref, and the flag follows it
OneRecorderWithoutDoublePress ==
    ~used.doubled => C38_OneRecorder

\* C37: selection hierarchy invariant: once the cascading-selection effects
\* have settled after any sequence of category / subcategory / group
\* selections, additions and template imports, the active subcategory is
\* either null or belongs to the active category, and the active group is
\* either null or belongs to the active subcategory.
C37_SelectionHierarchy ==
    /\ \/ nav.activeSubcategoryId = 0
       \/ \E i \in 1 .. Len(nav.subcategories) :
             /\ nav.subcategories[i].id = nav.activeSubcategoryId
             /\ nav.subcategories[i].categoryId = nav.activeCategoryId
    /\ \/ nav.activeGroupId = 0
       \/ \E i \in 1 .. Len(nav.groups) :
             /\ nav.groups[i].id = nav.activeGroupId
             /\ nav.groups[i].subcategoryId = nav.activeSubcategoryId

\* an add resumed after the selection it was made under had been changed,
\* and a subcategory and a group are selected
C37_Witness ==
    /\ nav.crossed /\ nav.pending = {}
    /\ nav.activeSubcategoryId # 0 /\ nav.activeGroupId # 0
    /\ nav.activeCategoryId = 2

=============================================================================
